---- MODULE Spec2Model ----
(***************************************************************************)
(* Caching pipeline of the FED chatbot: the team roster cache              *)
(* (services/teamDataManager.js over services/teamAPI.js) and the events   *)
(* cache (services/eventsDataManager, second part of geminiAPI.js).        *)
(*                                                                         *)
(* JavaScript runs every async function without interruption up to its     *)
(* next await, so one action of the model is one such run: the entry of a  *)
(* call up to its first await, the continuation after a timer, the         *)
(* continuation after an upstream response.  Time is Date.now() in ms.     *)
(***************************************************************************)
EXTENDS Integers, Sequences, FiniteSets, TLC

VARIABLES
    env,                  \* the scenario: callers and upstream answers
    clock,                \* Date.now()
    polls,                \* timers that have run out
    \* TeamDataManager
    cachedData, lastFetch, isFetching,
    tcalls,               \* the calls of getMembers, under way and returned
    fetchCount,           \* upstream team fetches started
    fetchResults,         \* what each of them ended with
    popAt,                \* time of the read that populated the team cache
    \* eventsDataManager
    cachedEvents, lastEventsFetchTime,
    ecalls,               \* the calls of fetchAndCacheEvents
    evPopAt,              \* time the events cache was populated by a read
    \* processEventsData on its own
    rawEvents, processed,
    \* prepareContext and the prompt of generateAIResponse on their own
    context,
    \* the load of config/constants.js
    config,
    \* geminiAPI and chatbotAPI
    retry,                \* one run of retryWithBackoff over an arbitrary fn
    gcalls,               \* the calls of generateAIResponse
    scalls,               \* the calls of sendMessage
    pings                 \* the calls of ping

teamVars == <<cachedData, lastFetch, isFetching, tcalls, fetchCount,
              fetchResults, popAt>>

eventsVars == <<cachedEvents, lastEventsFetchTime, ecalls, evPopAt>>

partitionVars == <<rawEvents, processed, context, config>>

chatVars == <<retry, gcalls, scalls, pings>>

vars == <<env, clock, polls, teamVars, eventsVars, partitionVars, chatVars>>

-----------------------------------------------------------------------------
(* Bounds of the model *)

\* calls issued on the team cache in one behaviour
MaxCalls == 2
\* wait-and-recheck and request timers that are allowed to run out in one behaviour
MaxPolls == 1
\* backoff and request timers of the events cache that are allowed to run out
MaxBackoffs == 2
\* events handed to processEventsData
MaxEvents == 7
\* largest maxRetries handed to retryWithBackoff
MaxRetries == 3
\* events of the upstream list behind a prompt
MaxContextEvents == 2
\* Date.now() when the page is loaded, far beyond every TTL
StartTime == 1000000

-----------------------------------------------------------------------------
(* Program constants *)

\* CONFIG.CACHE.TEAM_DURATION, the default of constants.js
cacheTimeout == 120000
\* setTimeout(resolve, 100) of the wait-and-recheck loop
PollDelay == 100
\* axios timeout of the team request
TeamRequestTimeout == 10000
\* CONFIG.CACHE.EVENTS_DURATION, the default
EVENTS_DURATION == 120000
\* CONFIG.RETRY.MAX_ATTEMPTS and CONFIG.RETRY.INITIAL_DELAY, the defaults
MAX_ATTEMPTS == 3
INITIAL_DELAY == 1000
\* .slice(0, 5) of the past events
PastLimit == 5

\* last clock value a behaviour reaches: one TTL and one request after the start
MaxTime == StartTime + cacheTimeout + TeamRequestTimeout + INITIAL_DELAY

-----------------------------------------------------------------------------
(* Values *)

\* An optional value: None is JavaScript's null, Some(x) a non-null x.
None == <<>>
Some(x) == <<x>>

\* name === null of an upstream member record
NullName == "<null>"

\* The upstream roster is drawn from these records.
TeamMembers ==
    { [name |-> "alice", year |-> 2024, access |-> "PRESIDENT"],
      [name |-> "Bob",   year |-> 2024, access |-> "MEMBER"],
      [name |-> "carol", year |-> 2025, access |-> "DIRECTOR_TECHNICAL"],
      [name |-> NullName, year |-> 2025, access |-> "ALUMNI"] }

\* String.prototype.localeCompare orders letters first and case second;
\* plain code-unit order puts every upper-case letter before the lower-case ones.
CollationRank == [n \in {"alice", "Bob", "carol"} |->
                    CASE n = "alice" -> 1 [] n = "Bob" -> 2 [] n = "carol" -> 3]
CodeUnitRank == [n \in {"alice", "Bob", "carol"} |->
                    CASE n = "Bob" -> 1 [] n = "alice" -> 2 [] n = "carol" -> 3]

localeCompare(a, b) == CollationRank[a] - CollationRank[b]

\* Every ordering of every subset of TeamMembers.
UpstreamRosters ==
    { s \in UNION { [1..n -> TeamMembers] : n \in 0..Cardinality(TeamMembers) } :
        \A i, j \in DOMAIN s : i # j => s[i] # s[j] }

\* What axios.get on the team endpoint ends with: a 200 response whose body has
\* success and data, a 200 response without success, a resolved response of
\* another status, a rejection (network or HTTP error), the 10 s timeout.
TeamResponses(rosters) ==
    [kind : {"ok"}, data : rosters]
    \cup [kind : {"nosuccess", "non200", "error", "timeout"}, data : {<<>>}]

\* The rosters of the concurrency scenarios: two different ones and the empty one.
FewRosters ==
    { s \in UpstreamRosters :
        \/ s = <<>>
        \/ Len(s) = 1 /\ s[1].name = "Bob"
        \/ Len(s) = 2 /\ s[1].name = "alice" /\ s[2].name = "carol" }

RECURSIVE FilterSeq(_, _)
FilterSeq(s, keep) ==
    IF s = <<>> THEN <<>>
    ELSE IF Head(s) \in keep THEN <<Head(s)>> \o FilterSeq(Tail(s), keep)
         ELSE FilterSeq(Tail(s), keep)

\* the comparator of validMembers.sort; before it, names compared by code unit
CompareMembersCodeUnit(a, b) ==
    IF b.year # a.year THEN b.year - a.year
    ELSE CodeUnitRank[a.name] - CodeUnitRank[b.name]
CompareMembers(a, b) ==
    IF b.year # a.year THEN b.year - a.year
    ELSE localeCompare(a.name, b.name)

\* Array.prototype.sort is stable: x goes behind every element it does not precede.
RECURSIVE InsertMember(_, _)
InsertMember(x, s) ==
    IF s = <<>> THEN <<x>>
    ELSE IF CompareMembers(x, Head(s)) < 0 THEN <<x>> \o s
         ELSE <<Head(s)>> \o InsertMember(x, Tail(s))

RECURSIVE SortMembers(_)
SortMembers(s) ==
    IF s = <<>> THEN <<>>
    ELSE InsertMember(s[Len(s)], SortMembers(SubSeq(s, 1, Len(s) - 1)))

\* member.name !== null
ValidMembers(data) == FilterSeq(data, {m \in TeamMembers : m.name # NullName})

\* a fetchTeamMembers that lets the failure of the request reach its caller
fetchTeamMembersRethrow(resp) ==
    IF resp.kind = "ok"
    THEN [threw |-> FALSE, value |-> SortMembers(ValidMembers(resp.data))]
    ELSE [threw |-> TRUE, value |-> <<>>]

\* teamAPI.fetchTeamMembers: the value its promise resolves with.  Every
\* failure is caught inside and answered with [], so it never rejects.
fetchTeamMembers(resp) ==
    IF resp.kind = "ok"
    THEN [threw |-> FALSE, value |-> SortMembers(ValidMembers(resp.data))]
    ELSE [threw |-> FALSE, value |-> <<>>]

-----------------------------------------------------------------------------
(* TeamDataManager *)

TeamOps == {"getMembers", "refresh", "findByName", "findByRole", "getBoardMembers"}

\* The strings the derived reads are called with and compare, by their
\* characters: NoArg is the call without an argument.
NoArg == ""
Spell ==
    [s \in {"alice", "Bob", "carol", "BO", "zed", "PRESIDENT", "MEMBER",
            "DIRECTOR_TECHNICAL", "ALUMNI", "DIRECTOR", NoArg} |->
        CASE s = "alice" -> <<"a", "l", "i", "c", "e">>
          [] s = "Bob" -> <<"B", "o", "b">>
          [] s = "carol" -> <<"c", "a", "r", "o", "l">>
          [] s = "BO" -> <<"B", "O">>
          [] s = "zed" -> <<"z", "e", "d">>
          [] s = "PRESIDENT" -> <<"P", "R", "E", "S", "I", "D", "E", "N", "T">>
          [] s = "MEMBER" -> <<"M", "E", "M", "B", "E", "R">>
          [] s = "DIRECTOR_TECHNICAL" ->
                <<"D", "I", "R", "E", "C", "T", "O", "R", "_",
                  "T", "E", "C", "H", "N", "I", "C", "A", "L">>
          [] s = "ALUMNI" -> <<"A", "L", "U", "M", "N", "I">>
          [] s = "DIRECTOR" -> <<"D", "I", "R", "E", "C", "T", "O", "R">>
          [] s = NoArg -> <<>>]
Strings == DOMAIN Spell

\* String.prototype.toLowerCase and String.prototype.includes
toLowerCase(chars) ==
    [k \in DOMAIN chars |->
        CASE chars[k] = "B" -> "b" [] chars[k] = "O" -> "o" [] OTHER -> chars[k]]
includes(chars, part) ==
    \E k \in 0..(Len(chars) - Len(part)) :
        \A n \in 1..Len(part) : chars[k + n] = part[n]

\* the arguments the callers pass to each operation
Args(op) ==
    CASE op = "findByName" -> {"BO", "zed"}
      [] op = "findByRole" -> {"DIRECTOR", "MEMBER"}
      [] OTHER -> {NoArg}

\* boardAccessCodes of getBoardMembers, as far as TeamMembers has them
boardAccessCodes == {"PRESIDENT", "DIRECTOR_TECHNICAL"}

\* Array.prototype.find
RECURSIVE Find(_, _)
Find(s, keep) ==
    IF s = <<>> THEN None
    ELSE IF Head(s) \in keep THEN Some(Head(s)) ELSE Find(Tail(s), keep)

\* m.name?.toLowerCase().includes(lowerName), and
\* m.access === role || m.access?.includes(role)
NameMatches(m, name) ==
    m.name # NullName /\ includes(toLowerCase(Spell[m.name]), toLowerCase(Spell[name]))
RoleMatches(m, role) == m.access = role \/ includes(Spell[m.access], Spell[role])

\* what the operation returns once its getMembers has returned members
DerivedRead(op, arg, members) ==
    CASE op = "findByName" -> Find(members, {m \in TeamMembers : NameMatches(m, arg)})
      [] op = "findByRole" -> FilterSeq(members, {m \in TeamMembers : RoleMatches(m, arg)})
      [] op = "getBoardMembers" ->
            FilterSeq(members, {m \in TeamMembers : m.access \in boardAccessCodes})
      [] OTHER -> members

\* refresh() alone sets lastFetch to null before it reads; before it, the
\* derived reads doing the same
ForcesFetchDerived(op) == op # "getMembers"
ForcesFetch(op) == op = "refresh"

\* The freshness test of getMembers; a null lastFetch is 0 here, both are falsy.
\* Before it, the test with <= for <, and the test that takes an empty roster
\* for no roster.
IsFreshInclusive(cd, lf, now) == cd # None /\ lf # 0 /\ now - lf <= cacheTimeout
IsFreshNonEmpty(cd, lf, now) ==
    cd # None /\ cd # Some(<<>>) /\ lf # 0 /\ now - lf < cacheTimeout
IsFresh(cd, lf, now) == cd # None /\ lf # 0 /\ now - lf < cacheTimeout

\* if (this.isFetching); before it, the read that never waits, and the read
\* that waits whatever the flag says
NoGuard(flag) == FALSE
AlwaysWait(flag) == TRUE
FetchInProgress(flag) == flag

\* finally { this.isFetching = false }; before it, the flag never cleared
FlagLeftSet == TRUE
FlagAfterFetch == FALSE

\* this.lastFetch = now, now being read when the call was entered; before it,
\* the time never stored
StoredFetchTimeNone(now) == 0
StoredFetchTime(now) == now

Active(c) == c.pc # "done"

\* the fetch a read issued now waits for or starts: 0 when the cache answers
JoinedFetch ==
    IF popAt # 0 /\ clock - popAt < cacheTimeout THEN 0
    ELSE IF isFetching THEN fetchCount ELSE fetchCount + 1

NewCall(op, arg) ==
    [op |-> op, arg |-> arg, ret |-> None, pc |-> "new", now |-> 0, wakeAt |-> 0, members |-> None,
     fetched |-> FALSE, ok |-> FALSE, prior |-> None, stored |-> None,
     storedAt |-> 0,
     clean |-> (op # "refresh"),
     hit |-> (op # "refresh" /\ popAt # 0 /\ clock - popAt < cacheTimeout),
     staleIssue |-> (op # "refresh" /\ popAt # 0 /\ clock - popAt >= cacheTimeout
                     /\ ~isFetching),
     issueCache |-> cachedData,
     join |-> JoinedFetch, fcIssue |-> fetchCount, fcRet |-> 0]

\* One run of getMembers from its first line to its first await or its return,
\* for call i whose record is c, reading lastFetch as lf.
GetMembers(calls, i, c, lf) ==
    IF IsFresh(cachedData, lf, clock)
    THEN /\ tcalls' = [calls EXCEPT ![i] =
                [c EXCEPT !.pc = "done", !.now = clock, !.members = cachedData,
                          !.ret = Some(DerivedRead(c.op, c.arg, cachedData[1])),
                          !.fcRet = fetchCount]]
         /\ UNCHANGED <<isFetching, fetchCount, fetchResults>>
    ELSE IF FetchInProgress(isFetching)
    THEN /\ tcalls' = [calls EXCEPT ![i] =
                [c EXCEPT !.pc = "wait", !.now = clock, !.wakeAt = clock + PollDelay]]
         /\ UNCHANGED <<isFetching, fetchCount, fetchResults>>
    ELSE /\ isFetching' = TRUE
         /\ fetchCount' = fetchCount + 1
         /\ fetchResults' = Append(fetchResults, None)
         /\ tcalls' = [calls EXCEPT ![i] =
                [c EXCEPT !.pc = "fetch", !.now = clock, !.fetched = TRUE]]

\* refresh() sets lastFetch to null before it reads; it and clearCache end
\* the window of every read that is under way.
Disturb(calls) ==
    [k \in DOMAIN calls |->
        IF Active(calls[k]) THEN [calls[k] EXCEPT !.clean = FALSE] ELSE calls[k]]

\* getMembers, refresh or one of the derived reads, from its call to the
\* first await or the return of its getMembers
TeamEnter(op, arg) ==
    LET i == Len(tcalls) + 1
        lf == IF ForcesFetch(op) THEN 0 ELSE lastFetch
        base == IF ForcesFetch(op) THEN Disturb(tcalls) ELSE tcalls
    IN /\ lastFetch' = lf
       /\ popAt' = IF ForcesFetch(op) THEN 0 ELSE popAt
       /\ GetMembers(Append(base, NewCall(op, arg)), i, NewCall(op, arg), lf)

\* A caller starts getMembers, refresh or one of the derived reads.
TeamCall(op, arg) ==
    /\ Len(tcalls) < env.calls
    /\ op \in env.ops
    /\ arg \in Args(op)
    /\ TeamEnter(op, arg)
    /\ UNCHANGED <<env, clock, cachedData, polls>>

\* The 100 ms timer of a waiting call has run out: return this.getMembers().
TeamWake(i) ==
    /\ i \in DOMAIN tcalls
    /\ tcalls[i].pc = "wait"
    /\ clock >= tcalls[i].wakeAt
    /\ GetMembers(tcalls, i, tcalls[i], lastFetch)
    /\ UNCHANGED <<env, clock, cachedData, lastFetch, popAt, polls>>

\* The upstream request of call i ends with resp: the rest of the try block,
\* or the catch block, and the finally block.
TeamResolve(i, resp) ==
    /\ i \in DOMAIN tcalls
    /\ tcalls[i].pc = "fetch"
    /\ resp.kind = "timeout" => clock = tcalls[i].now + TeamRequestTimeout
    /\ LET c == tcalls[i]
           r == fetchTeamMembers(resp)
           newData == IF r.threw THEN cachedData ELSE Some(r.value)
           newTime == IF r.threw THEN lastFetch ELSE StoredFetchTime(c.now)
           answer == IF ~r.threw THEN r.value
                     ELSE IF cachedData # None THEN cachedData[1] ELSE <<>>
       IN /\ cachedData' = newData
          /\ lastFetch' = newTime
          /\ popAt' = IF r.threw THEN popAt ELSE c.now
          /\ isFetching' = FlagAfterFetch
          /\ fetchResults' = [fetchResults EXCEPT ![Len(fetchResults)] = Some(answer)]
          /\ tcalls' = [tcalls EXCEPT ![i] =
                [c EXCEPT !.pc = "done", !.members = Some(answer), !.ok = (resp.kind = "ok"),
                          !.ret = Some(DerivedRead(c.op, c.arg, answer)),
                          !.prior = cachedData, !.stored = newData,
                          !.storedAt = newTime, !.fcRet = fetchCount]]
    /\ UNCHANGED <<env, clock, fetchCount, polls>>

\* clearCache(), while a further call can still see its effect
ClearCache ==
    /\ Len(tcalls) < env.calls
    /\ cachedData # None \/ lastFetch # 0
    /\ cachedData' = None
    /\ lastFetch' = 0
    /\ popAt' = 0
    /\ tcalls' = Disturb(tcalls)
    /\ UNCHANGED <<env, clock, isFetching, fetchCount, fetchResults, polls>>

\* Pending timers of the team cache: the wait-and-recheck timers and the
\* timeout of the request in flight.
TeamDeadlines ==
    { tcalls[i].wakeAt : i \in {k \in DOMAIN tcalls : tcalls[k].pc = "wait"} }
    \cup { tcalls[i].now + TeamRequestTimeout :
              i \in {k \in DOMAIN tcalls : tcalls[k].pc = "fetch"} }

MinOf(S) == CHOOSE x \in S : \A y \in S : x <= y

\* Time passes up to the next pending timer.
TeamTimerTick ==
    /\ TeamDeadlines # {}
    /\ MinOf(TeamDeadlines) > clock
    /\ MinOf(TeamDeadlines) <= MaxTime
    /\ polls < MaxPolls
    /\ polls' = polls + 1
    /\ clock' = MinOf(TeamDeadlines)
    /\ UNCHANGED <<env, cachedData, lastFetch, isFetching, tcalls, fetchCount,
                   fetchResults, popAt>>

\* Time passes while nothing is pending: by less than the TTL, or by the TTL.
IdleSteps == {cacheTimeout - PollDelay, cacheTimeout}

TeamIdleTick(d) ==
    /\ TeamDeadlines = {}
    /\ clock + d <= MaxTime
    /\ clock' = clock + d
    /\ UNCHANGED <<env, polls>>
    /\ UNCHANGED teamVars

\* a step of the team cache leaves the rest of the program alone
TeamOnly == UNCHANGED <<eventsVars, partitionVars, chatVars>>

TeamNext ==
    \/ TeamOnly /\ \E op \in TeamOps, arg \in Strings : TeamCall(op, arg)
    \/ TeamOnly /\ \E i \in 1..MaxCalls : TeamWake(i)
    \/ TeamOnly /\ \E i \in 1..MaxCalls, resp \in TeamResponses(env.rosters) :
                       TeamResolve(i, resp)
    \/ TeamOnly /\ ClearCache
    \/ TeamOnly /\ TeamTimerTick
    \/ TeamOnly /\ \E d \in IdleSteps : TeamIdleTick(d)

-----------------------------------------------------------------------------
(* eventsDataManager: processEventsData *)

\* new Date(info.eventDate).getTime(), counted in days from 2024-01-01
DateTime == [d \in {"2024-03-01", "2024-06-15", "2024-11-20", "2025-02-01"} |->
                CASE d = "2024-03-01" -> 60
                  [] d = "2024-06-15" -> 166
                  [] d = "2024-11-20" -> 324
                  [] d = "2025-02-01" -> 397]

\* The info of an upstream event: missing, of an upcoming event, of a past one.
EventShapes ==
    {None}
    \cup {Some([eventDate |-> "2025-02-01", isEventPast |-> FALSE])}
    \cup {Some([eventDate |-> d, isEventPast |-> TRUE]) :
             d \in {"2024-03-01", "2024-06-15", "2024-11-20"}}

Event(id, shape) == [id |-> id, info |-> shape, sections |-> "sections"]

\* the comparator of the past events: dateB.getTime() - dateA.getTime();
\* before it, the two dates swapped
CompareEventsAscending(a, b) ==
    DateTime[a.info[1].eventDate] - DateTime[b.info[1].eventDate]
CompareEvents(a, b) ==
    DateTime[b.info[1].eventDate] - DateTime[a.info[1].eventDate]

RECURSIVE InsertEvent(_, _)
InsertEvent(x, s) ==
    IF s = <<>> THEN <<x>>
    ELSE IF CompareEvents(x, Head(s)) < 0 THEN <<x>> \o s
         ELSE <<Head(s)>> \o InsertEvent(x, Tail(s))

RECURSIVE SortEvents(_)
SortEvents(s) ==
    IF s = <<>> THEN <<>>
    ELSE InsertEvent(s[Len(s)], SortEvents(SubSeq(s, 1, Len(s) - 1)))

\* .slice(0, 5)
SlicePast(s) == SubSeq(s, 1, IF Len(s) < PastLimit THEN Len(s) ELSE PastLimit)

\* processEventsData(rawEvents) for an array rawEvents
processEventsData(raw) ==
    LET upcoming == SelectSeq(raw, LAMBDA e : e.info # None /\ ~e.info[1].isEventPast)
        past == SelectSeq(raw, LAMBDA e : e.info # None /\ e.info[1].isEventPast)
        kept == SlicePast(SortEvents(past))
    IN [upcomingEvents |-> upcoming,
        pastEvents |-> [k \in 1..Len(kept) |-> kept[k].info[1]]]

\* The upstream list grows by one event, whose id is its place.
AddEvent(shape) ==
    /\ processed = None
    /\ Len(rawEvents) < MaxEvents
    /\ rawEvents' = Append(rawEvents, Event(Len(rawEvents) + 1, shape))
    /\ UNCHANGED <<env, clock, polls, teamVars, eventsVars, chatVars, processed, context, config>>

\* processEventsData applied to the upstream list
Process ==
    /\ processed = None
    /\ processed' = Some(processEventsData(rawEvents))
    /\ UNCHANGED <<env, clock, polls, teamVars, eventsVars, chatVars, rawEvents, context, config>>

PartitionNext ==
    \/ \E shape \in EventShapes : AddEvent(shape)
    \/ Process

-----------------------------------------------------------------------------
(* eventsDataManager: fetchAndCacheEvents *)

NoEvents == [upcomingEvents |-> <<>>, pastEvents |-> <<>>]

\* The event lists the upstream of the cache scenarios answers with: none,
\* one upcoming event, one past event.
EventLists ==
    { <<>>,
      <<Event(1, Some([eventDate |-> "2025-02-01", isEventPast |-> FALSE]))>>,
      <<Event(1, Some([eventDate |-> "2024-06-15", isEventPast |-> TRUE]))>> }

\* response.data of a 200 answer: success with an events array, success false,
\* success without an events array
EventBodies ==
    { [success |-> TRUE, events |-> Some(l)] : l \in EventLists }
    \cup { [success |-> FALSE, events |-> Some(<<>>)], [success |-> TRUE, events |-> None] }

\* What axios.get on the events endpoint ends with: a 200 response, a resolved
\* response of another status, a rejection, the rejection of the 10 s timeout.
EventsResponses ==
    [kind : {"ok200"}, body : EventBodies]
    \cup [kind : {"non200", "error", "timeout"}, body : {[success |-> FALSE, events |-> None]}]

\* isCacheFresh()
isCacheFresh ==
    /\ clock - lastEventsFetchTime < EVENTS_DURATION
    /\ Len(cachedEvents.upcomingEvents) > 0

\* the value returned from the catch block of fetchAndCacheEvents; before it,
\* the stale cache used only when it has upcoming events
EventsFallbackUpcomingOnly(cache) ==
    IF Len(cache.upcomingEvents) > 0 THEN cache ELSE NoEvents
EventsFallback(cache) ==
    IF Len(cache.upcomingEvents) > 0 \/ Len(cache.pastEvents) > 0 THEN cache ELSE NoEvents

NewEventsCall ==
    [pc |-> "new", attempt |-> 0, delay |-> INITIAL_DELAY, wakeAt |-> 0,
     hasError |-> FALSE, ret |-> None,
     timeFresh |-> (evPopAt # 0 /\ clock - evPopAt < EVENTS_DURATION),
     failed |-> FALSE, cacheBefore |-> None, cacheKept |-> TRUE,
     timeKept |-> TRUE, clearedAt |-> 0]

\* CONFIG.RETRY.MAX_ATTEMPTS as configured: parseInt(VITE_MAX_RETRIES) || 3
RETRY_MAX_ATTEMPTS == env.maxAttempts

\* one more axios.get(url) of fetchWithBackoff
StartRequest(c) ==
    [c EXCEPT !.pc = "request", !.attempt = @ + 1]

\* fetchAndCacheEvents up to its first await, or to its return: the cache
\* answers, or fetchWithBackoff makes its first request; with fewer than one
\* attempt configured the loop is skipped, reading lastError.message throws and
\* the catch block runs; before it, a read that is answered from the cache
\* while a request of another read is under way
EventsEnterSingleFlight ==
    IF isCacheFresh \/ \E k \in DOMAIN ecalls : ecalls[k].pc \in {"request", "backoff"}
    THEN [NewEventsCall EXCEPT !.pc = "done", !.ret = Some(cachedEvents)]
    ELSE StartRequest(NewEventsCall)
EventsEnter ==
    IF isCacheFresh
    THEN [NewEventsCall EXCEPT !.pc = "done", !.ret = Some(cachedEvents)]
    ELSE IF RETRY_MAX_ATTEMPTS < 1
    THEN [NewEventsCall EXCEPT !.pc = "done", !.failed = TRUE,
                               !.ret = Some(EventsFallback(cachedEvents)),
                               !.cacheBefore = Some(cachedEvents)]
    ELSE StartRequest(NewEventsCall)

\* A caller starts fetchAndCacheEvents.
EventsCall ==
    /\ Len(ecalls) < env.calls
    /\ "fetchAndCacheEvents" \in env.ops
    /\ ecalls' = Append(ecalls, EventsEnter)
    /\ UNCHANGED <<env, clock, polls, cachedEvents, lastEventsFetchTime, evPopAt>>

\* a catch block that stamps the cache as after a fetch, so that the value
\* kept after a failure counts as fresh for the next TTL
EventsFailStamped(i) ==
    /\ cachedEvents' = cachedEvents
    /\ lastEventsFetchTime' = clock
    /\ ecalls' = [ecalls EXCEPT ![i] =
            [@ EXCEPT !.pc = "done", !.failed = TRUE,
                      !.ret = Some(EventsFallback(cachedEvents)),
                      !.cacheBefore = Some(cachedEvents),
                      !.cacheKept = (cachedEvents' = cachedEvents),
                      !.timeKept = (lastEventsFetchTime' = lastEventsFetchTime)]]
    /\ UNCHANGED evPopAt

\* fetchWithBackoff has thrown, or the body was not usable: the catch block.
EventsFail(i) ==
    /\ cachedEvents' = cachedEvents
    /\ lastEventsFetchTime' = lastEventsFetchTime
    /\ ecalls' = [ecalls EXCEPT ![i] =
            [@ EXCEPT !.pc = "done", !.failed = TRUE,
                      !.ret = Some(EventsFallback(cachedEvents)),
                      !.cacheBefore = Some(cachedEvents),
                      !.cacheKept = (cachedEvents' = cachedEvents),
                      !.timeKept = (lastEventsFetchTime' = lastEventsFetchTime)]]
    /\ UNCHANGED evPopAt

\* The request of call i ends with resp: the rest of the loop body of
\* fetchWithBackoff and, when it returns or throws, the rest of fetchAndCacheEvents.
EventsResponse(i, resp) ==
    /\ i \in DOMAIN ecalls
    /\ ecalls[i].pc = "request"
    /\ LET c == ecalls[i] IN
       IF resp.kind = "ok200"
       THEN IF resp.body.success /\ resp.body.events # None
            THEN /\ cachedEvents' = processEventsData(resp.body.events[1])
                 /\ lastEventsFetchTime' = clock
                 /\ evPopAt' = clock
                 /\ ecalls' = [ecalls EXCEPT ![i] =
                        [c EXCEPT !.pc = "done", !.ret = Some(cachedEvents')]]
            ELSE EventsFail(i)
       ELSE IF resp.kind = "non200"
       THEN IF c.attempt < RETRY_MAX_ATTEMPTS
            THEN /\ ecalls' = [ecalls EXCEPT ![i] = StartRequest(c)]
                 /\ UNCHANGED <<cachedEvents, lastEventsFetchTime, evPopAt>>
            ELSE EventsFail(i)
       ELSE IF c.attempt < RETRY_MAX_ATTEMPTS
            THEN /\ ecalls' = [ecalls EXCEPT ![i] =
                        [c EXCEPT !.pc = "backoff", !.hasError = TRUE,
                                  !.wakeAt = clock + c.delay]]
                 /\ UNCHANGED <<cachedEvents, lastEventsFetchTime, evPopAt>>
            ELSE EventsFail(i)
    /\ UNCHANGED <<env, clock, polls>>

\* The backoff timer of call i has run out: delay *= 2 and the next attempt.
EventsWake(i) ==
    /\ i \in DOMAIN ecalls
    /\ ecalls[i].pc = "backoff"
    /\ clock >= ecalls[i].wakeAt
    /\ ecalls' = [ecalls EXCEPT ![i] = StartRequest([@ EXCEPT !.delay = 2 * @])]
    /\ UNCHANGED <<env, clock, polls, cachedEvents, lastEventsFetchTime, evPopAt>>

\* clearEventsCache(), while a further call can still see its effect.  Each
\* read that is under way notes how many reads had been called by then.
ClearEventsCache ==
    /\ Len(ecalls) < env.calls
    /\ cachedEvents # NoEvents \/ lastEventsFetchTime # 0
    /\ cachedEvents' = NoEvents
    /\ lastEventsFetchTime' = 0
    /\ evPopAt' = 0
    /\ ecalls' = [k \in DOMAIN ecalls |->
                    IF ecalls[k].pc # "done"
                    THEN [ecalls[k] EXCEPT !.clearedAt = Len(ecalls)] ELSE ecalls[k]]
    /\ UNCHANGED <<env, clock, polls>>

\* Pending backoff timers of the events cache.  The time a request takes is
\* left out: the clock moves during the backoff waits and between the calls.
EventsDeadlines ==
    { ecalls[i].wakeAt : i \in {k \in DOMAIN ecalls : ecalls[k].pc = "backoff"} }

\* Time passes up to the next backoff timer.
EventsTimerTick ==
    /\ EventsDeadlines # {}
    /\ MinOf(EventsDeadlines) > clock
    /\ MinOf(EventsDeadlines) <= MaxTime
    /\ polls < MaxBackoffs
    /\ polls' = polls + 1
    /\ clock' = MinOf(EventsDeadlines)
    /\ UNCHANGED <<env, eventsVars>>

EventsIdleSteps == {EVENTS_DURATION - INITIAL_DELAY, EVENTS_DURATION}

\* Time passes while no call is under way: by less than the TTL, or by the TTL.
EventsIdleTick(d) ==
    /\ \A i \in DOMAIN ecalls : ecalls[i].pc = "done"
    /\ clock + d <= MaxTime
    /\ clock' = clock + d
    /\ UNCHANGED <<env, polls, eventsVars>>

\* a step of the events cache leaves the rest of the program alone
EventsOnly == UNCHANGED <<teamVars, partitionVars, chatVars>>

EventsNext ==
    \/ EventsOnly /\ EventsCall
    \/ EventsOnly /\ \E i \in 1..MaxCalls, resp \in EventsResponses :
                         EventsResponse(i, resp)
    \/ EventsOnly /\ \E i \in 1..MaxCalls : EventsWake(i)
    \/ EventsOnly /\ ClearEventsCache
    \/ EventsOnly /\ EventsTimerTick
    \/ EventsOnly /\ \E d \in EventsIdleSteps : EventsIdleTick(d)

\* the answers of the events endpoint in the scenarios of clearEventsCache
ClearResponses ==
    { r \in EventsResponses :
        \/ r.kind = "error"
        \/ r.kind = "ok200" /\ r.body.success /\ r.body.events # None
           /\ Len(r.body.events[1]) = 1 }

ClearNext ==
    \/ EventsOnly /\ EventsCall
    \/ EventsOnly /\ \E i \in 1..(MaxCalls + 1), resp \in ClearResponses :
                         EventsResponse(i, resp)
    \/ EventsOnly /\ \E i \in 1..(MaxCalls + 1) : EventsWake(i)
    \/ EventsOnly /\ ClearEventsCache
    \/ EventsOnly /\ EventsTimerTick

\* the answers of the events endpoint around an outage: a rejection, and a
\* usable body with one upcoming event
OutageResponses ==
    { r \in EventsResponses :
        \/ r.kind = "error"
        \/ r.kind = "ok200" /\ r.body.success /\ r.body.events # None
           /\ Len(r.body.events[1]) = 1
           /\ ~r.body.events[1][1].info[1].isEventPast }

OutageNext ==
    \/ EventsOnly /\ EventsCall
    \/ EventsOnly /\ \E i \in 1..(MaxCalls + 1), resp \in OutageResponses :
                         EventsResponse(i, resp)
    \/ EventsOnly /\ \E i \in 1..(MaxCalls + 1) : EventsWake(i)
    \/ EventsOnly /\ EventsTimerTick
    \/ EventsOnly /\ \E d \in EventsIdleSteps : EventsIdleTick(d)

-----------------------------------------------------------------------------
(* geminiAPI: retryWithBackoff *)

\* attempt === maxRetries in the catch block; before it, the executor that
\* gives up one attempt early, and the one that gives up one attempt late
LastAttemptEarly(attempt, maxRetries) == attempt >= maxRetries - 1
LastAttemptLate(attempt, maxRetries) == attempt > maxRetries
LastAttempt(attempt, maxRetries) == attempt = maxRetries

\* throw error; before it, the executor that throws the first error it saw
ThrownFirst(lastError, error) == IF lastError = None THEN error ELSE lastError
Thrown(lastError, error) == error

\* delay *= 2; before it, the delay left as it is
NextDelayConstant(delay) == delay
NextDelay(delay) == delay * 2

\* The locals of one run of retryWithBackoff(fn, maxRetries, initialDelay), and
\* what the run has done so far: log holds what each fn() ended with, waited
\* the time each setTimeout took.
NewRetry(maxRetries, initialDelay) ==
    [maxRetries |-> maxRetries, initialDelay |-> initialDelay,
     delay |-> initialDelay, lastError |-> None, attempt |-> 0, pc |-> "new",
     calls |-> 0, log |-> <<>>, waited |-> <<>>, failAt |-> 0, wakeAt |-> 0,
     result |-> None, threw |-> FALSE, error |-> None]

\* the head of the for loop with attempt = n: fn() is invoked, or the loop is
\* left and lastError thrown
RetryLoop(r, n) ==
    IF n <= r.maxRetries
    THEN [r EXCEPT !.attempt = n, !.pc = "call", !.calls = @ + 1]
    ELSE [r EXCEPT !.attempt = n, !.pc = "done", !.threw = TRUE, !.error = r.lastError]

\* let delay, lastError and the first pass of the loop
RetryStart(r) == RetryLoop(r, 1)

\* an executor that gives up at once on an HTTP 400 or 403, which no retry
\* can cure
RetrySettleClientErrorFinal(r, out, now) ==
    LET logged == [r EXCEPT !.log = Append(@, out)] IN
    IF out.ok
    THEN [logged EXCEPT !.pc = "done", !.result = Some(out.val)]
    ELSE IF LastAttempt(r.attempt, r.maxRetries) \/ out.val.status \in {400, 403}
         THEN [logged EXCEPT !.pc = "done", !.threw = TRUE,
                             !.lastError = Some(out.val),
                             !.error = Thrown(r.lastError, Some(out.val))]
         ELSE [logged EXCEPT !.pc = "sleep", !.lastError = Some(out.val),
                             !.failAt = now, !.wakeAt = now + r.delay]

\* fn() has ended with out at time now: return its value, or the catch block
\* up to the throw or the setTimeout
RetrySettle(r, out, now) ==
    LET logged == [r EXCEPT !.log = Append(@, out)] IN
    IF out.ok
    THEN [logged EXCEPT !.pc = "done", !.result = Some(out.val)]
    ELSE IF LastAttempt(r.attempt, r.maxRetries)
         THEN [logged EXCEPT !.pc = "done", !.threw = TRUE,
                             !.lastError = Some(out.val),
                             !.error = Thrown(r.lastError, Some(out.val))]
         ELSE [logged EXCEPT !.pc = "sleep", !.lastError = Some(out.val),
                             !.failAt = now, !.wakeAt = now + r.delay]

\* the timer has run out at time now: delay *= 2 and the next pass of the loop
RetryResume(r, now) ==
    RetryLoop([r EXCEPT !.delay = NextDelay(@), !.waited = Append(@, now - r.failAt)],
              r.attempt + 1)

\* What an arbitrary fn ends with: a value it resolves with, an error it rejects with.
FnOutcomes == [ok : BOOLEAN, val : {"a", "b"}]

\* initialDelay of the runs of retryWithBackoff on their own
RetryDelays == {250, INITIAL_DELAY}

\* retryWithBackoff(fn, maxRetries, initialDelay) is called
RetryBegin ==
    /\ retry.pc = "new"
    /\ retry' = RetryStart(retry)
    /\ UNCHANGED <<env, clock, polls, gcalls, scalls, pings>>

\* fn() resolves or rejects
RetryFn(out) ==
    /\ retry.pc = "call"
    /\ retry' = RetrySettle(retry, out, clock)
    /\ UNCHANGED <<env, clock, polls, gcalls, scalls, pings>>

\* time passes up to the end of the setTimeout
RetryTick ==
    /\ retry.pc = "sleep"
    /\ clock < retry.wakeAt
    /\ clock' = retry.wakeAt
    /\ UNCHANGED <<env, polls, chatVars>>

\* the setTimeout promise resolves
RetryWake ==
    /\ retry.pc = "sleep"
    /\ clock >= retry.wakeAt
    /\ retry' = RetryResume(retry, clock)
    /\ UNCHANGED <<env, clock, polls, gcalls, scalls, pings>>

\* a step of the executor leaves the caches alone
RetryOnly == UNCHANGED <<teamVars, eventsVars, partitionVars>>

RetryNext ==
    \/ RetryOnly /\ RetryBegin
    \/ RetryOnly /\ \E out \in FnOutcomes : RetryFn(out)
    \/ RetryOnly /\ RetryTick
    \/ RetryOnly /\ RetryWake

-----------------------------------------------------------------------------
(* geminiAPI: generateAIResponse *)

\* HTTP_STATUS
OK == 200
BAD_REQUEST == 400
UNAUTHORIZED == 401
FORBIDDEN == 403
NOT_FOUND == 404
SERVER_ERROR == 500
\* a status axios resolves with that is not 200
NO_CONTENT == 204

\* ERROR_MESSAGES, and the literal of the timeout branch
NETWORK_ERROR == "Sorry, I'm having trouble connecting to the server. Please try again later."
API_CONFIG_ERROR == "Error: An API configuration issue occurred. Please contact support."
EMPTY_RESPONSE == "Sorry, I received an empty response. Please try a different query."
INVALID_INPUT == "Please enter a valid message."
TIMEOUT_MESSAGE == "Request timed out. Please try again with a shorter query."

\* messages of the errors the code creates itself
QueryError == "Query must be a non-empty string"
EmptyTextError == "Empty or invalid response from AI model"
UndefinedError == "Cannot read properties of undefined (reading 'response')"

\* A JavaScript value: its typeof and, for a string, its characters.
Js(type, str) == [type |-> type, str |-> str]
JsString(str) == Js("string", str)
JsUndefined == Js("undefined", "")

\* !value
Falsy(v) ==
    CASE v.type = "string" -> v.str = ""
      [] v.type = "number" -> v.str = "0"
      [] v.type \in {"undefined", "null"} -> TRUE
      [] OTHER -> FALSE

\* The strings whose trim() is empty, among the strings of the model.
WhitespaceOnly == {"", "   ", " \n"}

\* !query || typeof query !== 'string' || query.trim().length === 0; before
\* it, the test without the trim
InvalidQueryUntrimmed(query) == Falsy(query) \/ query.type # "string"
InvalidQuery(query) ==
    Falsy(query) \/ query.type # "string" \/ query.str \in WhitespaceOnly

\* !text || typeof text !== 'string' || text.trim().length === 0
InvalidText(text) ==
    Falsy(text) \/ text.type # "string" \/ text.str \in WhitespaceOnly

\* What the caller asks: a question, nothing, blanks, and values that are no strings.
Queries ==
    { JsString("Who is the president?"), JsString(""), JsString("   "),
      JsString(" \n"), JsUndefined, Js("null", ""), Js("number", "42"),
      Js("object", "{}") }

\* response.data?.candidates?.[0]?.content?.parts?.[0]?.text of a response: an
\* answer, an empty or blank string, nothing at that path (as in
\* {candidates: []}), a value that is no string
ResponseTexts ==
    { JsString("alice is the President."), JsString(""), JsString("   "),
      JsUndefined, Js("number", "42") }

\* An error object: its message, error.response?.status (0 without a
\* response) and error.code.
Error(message, status, code) == [message |-> message, status |-> status, code |-> code]

\* What axios.post on the generation endpoint ends with.  It resolves with a
\* response of a 2xx status; it rejects with an error that carries the
\* response of another status, with the timeout error, or with a network error.
GenOutcomes ==
    { [ok |-> TRUE, val |-> [status |-> OK, text |-> t]] : t \in ResponseTexts }
    \cup { [ok |-> TRUE, val |-> [status |-> NO_CONTENT, text |-> JsUndefined]] }
    \cup { [ok |-> FALSE, val |-> Error("Request failed with status code", st, "ERR_BAD_RESPONSE")] :
              st \in {BAD_REQUEST, UNAUTHORIZED, FORBIDDEN, NOT_FOUND, SERVER_ERROR} }
    \cup { [ok |-> FALSE, val |-> Error("timeout of 30000ms exceeded", 0, "ECONNABORTED")],
           [ok |-> FALSE, val |-> Error("Network Error", 0, "ERR_NETWORK")] }

\* validateAndExtractResponse(response): the text, or the error it throws
validateAndExtractResponse(response) ==
    IF response.status # OK
    THEN [threw |-> TRUE, text |-> "", error |-> Error("HTTP status", 0, "")]
    ELSE IF InvalidText(response.text)
    THEN [threw |-> TRUE, text |-> "", error |-> Error(EmptyTextError, 0, "")]
    ELSE [threw |-> FALSE, text |-> response.text.str, error |-> Error("", 0, "")]

\* the message the catch block of generateAIResponse returns for an error
\* object; before it, the mapping without the timeout branch
GenerationMessageNoTimeout(error) ==
    IF error.status = BAD_REQUEST \/ error.status = FORBIDDEN THEN API_CONFIG_ERROR
    ELSE IF error.message = EmptyTextError THEN EMPTY_RESPONSE
    ELSE NETWORK_ERROR
GenerationMessage(error) ==
    IF error.status = BAD_REQUEST \/ error.status = FORBIDDEN THEN API_CONFIG_ERROR
    ELSE IF error.message = EmptyTextError THEN EMPTY_RESPONSE
    ELSE IF error.code = "ECONNABORTED" THEN TIMEOUT_MESSAGE
    ELSE NETWORK_ERROR

\* The catch block of generateAIResponse for the thrown value error (None is
\* undefined, whose .response cannot be read); before it, a catch block that
\* throws again what it has no branch for.
GenerationCatchRethrow(error) ==
    IF error = None THEN [threw |-> TRUE, ret |-> None, error |-> UndefinedError]
    ELSE IF GenerationMessage(error[1]) = NETWORK_ERROR
         THEN [threw |-> TRUE, ret |-> None, error |-> error[1].message]
         ELSE [threw |-> FALSE, ret |-> Some(GenerationMessage(error[1])), error |-> ""]
GenerationCatch(error) ==
    IF error = None THEN [threw |-> TRUE, ret |-> None, error |-> UndefinedError]
    ELSE [threw |-> FALSE, ret |-> Some(GenerationMessage(error[1])), error |-> ""]

\* The lines and the serialized values of a prompt, one string each.
TEAM_START == "### LIVE TEAM DATA START ###"
TEAM_LABEL == "Team members list (JSON array, use this data source for current roles/names):"
TEAM_END == "### LIVE TEAM DATA END ###"
EVENT_START == "### LIVE EVENT DATA START ###"
EVENT_LABEL == "Events list (JSON array, use this data source for current/upcoming events):"
EVENT_END == "### LIVE EVENT DATA END ###"
PAST_LABEL == "If there is no upcoming event, mention past events:"
PAST_END == "### LIVE PAST EVENT DATA END ###"
QUERY_LABEL == "User Query: "

RECURSIVE Flatten(_)
Flatten(ss) == IF ss = <<>> THEN <<>> ELSE Head(ss) \o Flatten(Tail(ss))

\* JSON.stringify of a member, of the info of an event, of an event, and of
\* an array of each
JsonMember(m) ==
    <<"{", "name:", IF m.name = NullName THEN "null" ELSE m.name,
      "year:", ToString(m.year), "access:", m.access, "}">>
JsonInfo(info) ==
    <<"{", "eventDate:", info.eventDate,
      "isEventPast:", IF info.isEventPast THEN "true" ELSE "false", "}">>
JsonEvent(e) ==
    <<"{", "id:", ToString(e.id), "info:">>
    \o (IF e.info = None THEN <<"null">> ELSE JsonInfo(e.info[1]))
    \o <<"sections:", e.sections, "}">>
JsonMembers(s) == <<"[">> \o Flatten([k \in DOMAIN s |-> JsonMember(s[k])]) \o <<"]">>
JsonEvents(s) == <<"[">> \o Flatten([k \in DOMAIN s |-> JsonEvent(s[k])]) \o <<"]">>
JsonInfos(s) == <<"[">> \o Flatten([k \in DOMAIN s |-> JsonInfo(s[k])]) \o <<"]">>

\* prepareContext(teamMembers, events); before it, the past events left out
\* when there is an upcoming event
prepareContextPastOnDemand(teamMembers, events) ==
    <<TEAM_START, TEAM_LABEL>> \o JsonMembers(teamMembers) \o <<TEAM_END>>
    \o <<"">>
    \o <<EVENT_START, EVENT_LABEL>> \o JsonEvents(events.upcomingEvents) \o <<EVENT_END>>
    \o (IF events.upcomingEvents # <<>> THEN <<>>
        ELSE <<"">> \o <<PAST_LABEL>> \o JsonInfos(events.pastEvents) \o <<PAST_END>>)
prepareContext(teamMembers, events) ==
    <<TEAM_START, TEAM_LABEL>> \o JsonMembers(teamMembers) \o <<TEAM_END>>
    \o <<"">>
    \o <<EVENT_START, EVENT_LABEL>> \o JsonEvents(events.upcomingEvents) \o <<EVENT_END>>
    \o <<"">>
    \o <<PAST_LABEL>> \o JsonInfos(events.pastEvents) \o <<PAST_END>>

\* finalPrompt
finalPrompt(ctx, query) == ctx \o <<"", QUERY_LABEL, query.str>>

\* The events generateAIResponse is handed: processEventsData of every
\* upstream list of at most MaxContextEvents events.
ContextEvents ==
    { processEventsData([k \in DOMAIN shapes |-> Event(k, shapes[k])]) :
        shapes \in UNION { [1..n -> EventShapes] : n \in 0..MaxContextEvents } }

\* generateAIResponse(query, teamMembers, events) up to the payload: the
\* validation, then prepareContext and finalPrompt.
BuildPrompt(query, teamMembers, events) ==
    /\ context = None
    /\ context' = Some([query |-> query, teamMembers |-> teamMembers, events |-> events,
                         prompt |-> IF InvalidQuery(query) THEN None
                                    ELSE Some(finalPrompt(prepareContext(teamMembers, events),
                                                          query))])
    /\ UNCHANGED <<env, clock, polls, teamVars, eventsVars, chatVars, rawEvents, processed,
                   config>>

ContextNext ==
    \E query \in Queries, teamMembers \in UpstreamRosters, events \in ContextEvents :
        BuildPrompt(query, teamMembers, events)

-----------------------------------------------------------------------------
(* config/constants.js *)

\* the variables of import.meta.env the module reads, and what each can hold:
\* nothing, the empty string, a value
EnvVars ==
    {"VITE_API_BASE_URL", "VITE_GEMINI_API_KEY", "VITE_GEMINI_MODEL",
     "VITE_CHATBOT_NAME", "VITE_SYSTEM_PROMPT"}
EnvValues == {JsUndefined, JsString(""), JsString("value")}

requiredVars ==
    <<"VITE_API_BASE_URL", "VITE_GEMINI_API_KEY", "VITE_GEMINI_MODEL", "VITE_CHATBOT_NAME">>

\* validateEnvironment(): the names it throws with, none when it returns
validateEnvironment(metaEnv) == SelectSeq(requiredVars, LAMBDA v : Falsy(metaEnv[v]))

\* a || b
Or(a, b) == IF Falsy(a) THEN b ELSE a

\* CONFIG, as far as the values above go
CONFIG(metaEnv) ==
    [API |-> [BASE_URL |-> metaEnv["VITE_API_BASE_URL"]],
     GEMINI |-> [API_KEY |-> metaEnv["VITE_GEMINI_API_KEY"],
                 MODEL |-> Or(metaEnv["VITE_GEMINI_MODEL"], JsString("gemini-2.0-flash-exp")),
                 SYSTEM_PROMPT |-> metaEnv["VITE_SYSTEM_PROMPT"]],
     CHATBOT |-> [NAME |-> Or(metaEnv["VITE_CHATBOT_NAME"], JsString("AskFED"))]]

\* The module is loaded under metaEnv: validateEnvironment() throws, or CONFIG
\* is exported.
LoadConfig(metaEnv) ==
    /\ config = None
    /\ config' = Some([metaEnv |-> metaEnv,
                        threw |-> validateEnvironment(metaEnv) # <<>>,
                        missing |-> validateEnvironment(metaEnv),
                        CONFIG |-> IF validateEnvironment(metaEnv) # <<>> THEN None
                                   ELSE Some(CONFIG(metaEnv))])
    /\ UNCHANGED <<env, clock, polls, teamVars, eventsVars, chatVars, rawEvents, processed,
                   context>>

ConfigNext == \E metaEnv \in [EnvVars -> EnvValues] : LoadConfig(metaEnv)

\* A call of generateAIResponse(query, teamMembers, events): built tells
\* whether prepareContext has run, r is its run of retryWithBackoff.
NewGenCall(query, teamMembers, events) ==
    [query |-> query, teamMembers |-> teamMembers, events |-> events,
     pc |-> "new", built |-> FALSE,
     r |-> NewRetry(RETRY_MAX_ATTEMPTS, INITIAL_DELAY),
     ret |-> None, threw |-> FALSE, error |-> ""]

\* generateAIResponse with the validation moved into the function handed to
\* retryWithBackoff: a response that fails the validation counts as a failed
\* attempt and is retried after the backoff delay
GenAfterRetryValidatedInside(g, r) ==
    LET end(c) == [g EXCEPT !.r = r, !.pc = "done", !.threw = c.threw,
                            !.ret = c.ret, !.error = c.error]
    IN IF r.pc # "done" THEN [g EXCEPT !.r = r, !.pc = r.pc]
       ELSE IF r.threw THEN end(GenerationCatch(r.error))
       ELSE LET v == validateAndExtractResponse(r.result[1]) IN
            IF v.threw /\ ~LastAttempt(r.attempt, r.maxRetries)
            THEN [g EXCEPT !.pc = "sleep",
                           !.r = [r EXCEPT !.pc = "sleep", !.result = None,
                                           !.lastError = Some(v.error),
                                           !.failAt = clock,
                                           !.wakeAt = clock + r.delay]]
            ELSE IF v.threw THEN end(GenerationCatch(Some(v.error)))
            ELSE end([threw |-> FALSE, ret |-> Some(v.text), error |-> ""])

\* generateAIResponse from where retryWithBackoff stands as r: await it, or
\* validate what it returned, or catch what it threw or the validation threw
GenAfterRetry(g, r) ==
    LET end(c) == [g EXCEPT !.r = r, !.pc = "done", !.threw = c.threw,
                            !.ret = c.ret, !.error = c.error]
    IN IF r.pc # "done" THEN [g EXCEPT !.r = r, !.pc = r.pc]
       ELSE IF r.threw THEN end(GenerationCatch(r.error))
       ELSE LET v == validateAndExtractResponse(r.result[1]) IN
            IF v.threw THEN end(GenerationCatch(Some(v.error)))
            ELSE end([threw |-> FALSE, ret |-> Some(v.text), error |-> ""])

\* generateAIResponse up to its first await: the input validation, then the
\* context, the payload and the first axios.post
GenEnter(query, teamMembers, events) ==
    LET g == NewGenCall(query, teamMembers, events) IN
    IF InvalidQuery(query)
    THEN [g EXCEPT !.pc = "done", !.threw = TRUE, !.error = QueryError]
    ELSE GenAfterRetry([g EXCEPT !.built = TRUE], RetryStart(g.r))

\* A caller starts generateAIResponse(query) with the default context.
GenCall(query) ==
    /\ "generateAIResponse" \in env.ops
    /\ Len(gcalls) < env.calls
    /\ query \in env.messages
    /\ gcalls' = Append(gcalls, GenEnter(query, <<>>, NoEvents))
    /\ UNCHANGED <<env, clock, polls, retry, scalls, pings>>

\* axios.post of call i ends with out.
GenResponse(i, out) ==
    /\ i \in DOMAIN gcalls
    /\ gcalls[i].pc = "call"
    /\ gcalls' = [gcalls EXCEPT ![i] = GenAfterRetry(@, RetrySettle(@.r, out, clock))]
    /\ UNCHANGED <<env, clock, polls, retry, scalls, pings>>

\* The backoff timer of call i has run out.
GenWake(i) ==
    /\ i \in DOMAIN gcalls
    /\ gcalls[i].pc = "sleep"
    /\ clock >= gcalls[i].r.wakeAt
    /\ gcalls' = [gcalls EXCEPT ![i] = GenAfterRetry(@, RetryResume(@.r, clock))]
    /\ UNCHANGED <<env, clock, polls, retry, scalls, pings>>

\* Pending backoff timers of the generation client.
GenDeadlines ==
    { gcalls[i].r.wakeAt : i \in {k \in DOMAIN gcalls : gcalls[k].pc = "sleep"} }

\* Time passes up to the next backoff timer.
GenTimerTick ==
    /\ GenDeadlines # {}
    /\ MinOf(GenDeadlines) > clock
    /\ polls < MaxBackoffs
    /\ polls' = polls + 1
    /\ clock' = MinOf(GenDeadlines)
    /\ UNCHANGED <<env, chatVars>>

\* a step of the generation client leaves the caches alone
GenOnly == UNCHANGED <<teamVars, eventsVars, partitionVars>>

GenNext ==
    \/ GenOnly /\ \E query \in Queries : GenCall(query)
    \/ GenOnly /\ \E i \in 1..MaxCalls, out \in GenOutcomes :
                      out \in env.outcomes /\ GenResponse(i, out)
    \/ GenOnly /\ \E i \in 1..MaxCalls : GenWake(i)
    \/ GenOnly /\ GenTimerTick

-----------------------------------------------------------------------------
(* chatbotAPI: sendMessage *)

\* !message || typeof message !== 'string' || message.trim().length === 0;
\* before it, the test without the trim
InvalidMessageUntrimmed(message) == Falsy(message) \/ message.type # "string"
InvalidMessage(message) ==
    Falsy(message) \/ message.type # "string" \/ message.str \in WhitespaceOnly

SendDone == {i \in DOMAIN scalls : scalls[i].pc = "done"}

\* The object sendMessage resolves with; None is a field that is not there.
Envelope(success, response, error, metadata) ==
    [success |-> success, response |-> response, error |-> error, metadata |-> metadata]

\* A call of sendMessage(message): t, e and g are its getMembers call, its
\* fetchAndCacheEvents call and its generateAIResponse call.
\* quiet tells whether the step that took the call left the caches, their
\* requests and the generation calls as they were.
NewSend(message) ==
    [message |-> message, pc |-> "new", t |-> 0, e |-> 0, g |-> 0,
     ret |-> None, threw |-> FALSE, quiet |-> TRUE]

\* what Promise.all hands on from fetchTeamData()
TeamLeg(t) == tcalls[t].members[1]

\* what Promise.all hands on from fetchAndCacheEvents(); before it, the two
\* empty lists whenever the fetch failed
EventsLegEmptyOnFailure(e) == IF ecalls[e].failed THEN NoEvents ELSE ecalls[e].ret[1]
EventsLeg(e) == ecalls[e].ret[1]

\* [teamMembers, eventsData] as destructured from Promise.all by call i;
\* before it, the roster alone with the default for the events
SendContextTeamOnly(i) ==
    [teamMembers |-> TeamLeg(scalls[i].t), events |-> NoEvents]
SendContext(i) ==
    [teamMembers |-> TeamLeg(scalls[i].t), events |-> EventsLeg(scalls[i].e)]

\* the object returned after generateAIResponse of call g has resolved;
\* before it, an envelope that reports a fixed error message as a failure
SendSuccessChecked(g) ==
    Envelope(g.ret[1] \notin {API_CONFIG_ERROR, EMPTY_RESPONSE, TIMEOUT_MESSAGE, NETWORK_ERROR},
             g.ret[1], None,
             Some([teamMembersCount |-> Len(g.teamMembers),
                   upcomingEventsCount |-> Len(g.events.upcomingEvents),
                   pastEventsCount |-> Len(g.events.pastEvents)]))
SendSuccess(g) ==
    Envelope(TRUE, g.ret[1], None,
             Some([teamMembersCount |-> Len(g.teamMembers),
                   upcomingEventsCount |-> Len(g.events.upcomingEvents),
                   pastEventsCount |-> Len(g.events.pastEvents)]))

\* the catch block of sendMessage; before it, a catch block that throws again
SendCatchRethrow(message) == [threw |-> TRUE, ret |-> None]
SendCatch(message) ==
    [threw |-> FALSE, ret |-> Some(Envelope(FALSE, NETWORK_ERROR, Some(message), None))]

\* sendMessage(message) up to its first await or its return: the validation,
\* then fetchTeamData() and fetchAndCacheEvents() are both called, each running
\* to its own first await, and Promise.all is awaited.  The callers send a
\* valid message when every earlier one is answered, or when one is not and
\* its team fetch is still in flight, the case in which getMembers waits.
SendMessage(message) ==
    /\ "sendMessage" \in env.ops
    /\ Len(scalls) < env.calls
    /\ message \in env.messages
    /\ UNCHANGED <<env, clock, polls, retry, gcalls, pings>>
    /\ IF InvalidMessage(message)
       THEN /\ UNCHANGED <<teamVars, eventsVars>>
            /\ scalls' = Append(scalls,
                    [NewSend(message) EXCEPT !.pc = "done",
                        !.ret = Some(Envelope(FALSE, INVALID_INPUT, None, None)),
                        !.quiet = (teamVars' = teamVars /\ eventsVars' = eventsVars
                                   /\ gcalls' = gcalls)])
       ELSE /\ \A j, k \in DOMAIN scalls \ SendDone :
                    /\ j = k
                    /\ scalls[k].pc = "reads"
                    /\ tcalls[scalls[k].t].pc = "fetch"
            /\ TeamEnter("getMembers", NoArg)
            /\ ecalls' = Append(ecalls, EventsEnter)
            /\ UNCHANGED <<cachedData, cachedEvents, lastEventsFetchTime, evPopAt>>
            /\ scalls' = Append(scalls,
                    [NewSend(message) EXCEPT !.pc = "reads",
                        !.t = Len(tcalls) + 1, !.e = Len(ecalls) + 1,
                        !.quiet = (teamVars' = teamVars /\ eventsVars' = eventsVars
                                   /\ gcalls' = gcalls)])

\* Both reads of call i have resolved: generateAIResponse(message,
\* teamMembers, eventsData) is called.  Neither read ever rejects, so the two
\* .catch handlers do not run.
SendGenerate(i) ==
    /\ i \in DOMAIN scalls
    /\ scalls[i].pc = "reads"
    /\ tcalls[scalls[i].t].pc = "done"
    /\ ecalls[scalls[i].e].pc = "done"
    /\ gcalls' = Append(gcalls,
            GenEnter(scalls[i].message, SendContext(i).teamMembers, SendContext(i).events))
    /\ scalls' = [scalls EXCEPT ![i] = [@ EXCEPT !.pc = "generate", !.g = Len(gcalls) + 1]]
    /\ UNCHANGED <<env, clock, polls, retry, pings>>

\* generateAIResponse of call i has settled: the success envelope, or the
\* catch block.
SendReturn(i) ==
    /\ i \in DOMAIN scalls
    /\ scalls[i].pc = "generate"
    /\ gcalls[scalls[i].g].pc = "done"
    /\ LET g == gcalls[scalls[i].g]
           end == IF g.threw THEN SendCatch(g.error)
                  ELSE [threw |-> FALSE, ret |-> Some(SendSuccess(g))]
       IN scalls' = [scalls EXCEPT ![i] =
                [@ EXCEPT !.pc = "done", !.ret = end.ret, !.threw = end.threw]]
    /\ UNCHANGED <<env, clock, polls, retry, gcalls, pings>>

\* Time passes up to the next pending timer of the caches and the generation
\* client.
ChatTimerTick ==
    LET deadlines == TeamDeadlines \cup EventsDeadlines \cup GenDeadlines IN
    /\ deadlines # {}
    /\ MinOf(deadlines) > clock
    /\ MinOf(deadlines) <= MaxTime
    /\ polls < MaxBackoffs
    /\ polls' = polls + 1
    /\ clock' = MinOf(deadlines)
    /\ UNCHANGED <<env, teamVars, eventsVars, chatVars>>

\* Time passes by the TTL of the caches while no call is under way.
ChatIdleTick ==
    /\ \A i \in DOMAIN scalls : scalls[i].pc = "done"
    /\ scalls # <<>>
    /\ clock + cacheTimeout <= MaxTime
    /\ clock' = clock + cacheTimeout
    /\ UNCHANGED <<env, polls, teamVars, eventsVars, chatVars>>

\* the answers of the events endpoint in the scenarios of sendMessage: one
\* past event, and a rejection
FewEventsResponses ==
    { r \in EventsResponses :
        \/ r.kind = "error"
        \/ /\ r.kind = "ok200" /\ r.body.success /\ r.body.events # None
           /\ Len(r.body.events[1]) = 1
           /\ r.body.events[1][1].info[1].isEventPast }

SendNext ==
    \/ UNCHANGED partitionVars /\ \E message \in Queries : SendMessage(message)
    \/ UNCHANGED <<teamVars, eventsVars, partitionVars>> /\ \E i \in 1..MaxCalls : SendGenerate(i)
    \/ UNCHANGED <<teamVars, eventsVars, partitionVars>> /\ \E i \in 1..MaxCalls : SendReturn(i)
    \/ TeamOnly /\ \E i \in 1..MaxCalls : TeamWake(i)
    \/ TeamOnly /\ \E i \in 1..MaxCalls, resp \in TeamResponses(env.rosters) :
                       TeamResolve(i, resp)
    \/ EventsOnly /\ \E i \in 1..MaxCalls, resp \in FewEventsResponses :
                         EventsResponse(i, resp)
    \/ EventsOnly /\ \E i \in 1..MaxCalls : EventsWake(i)
    \/ GenOnly /\ \E i \in 1..MaxCalls, out \in GenOutcomes :
                      out \in env.outcomes /\ GenResponse(i, out)
    \/ GenOnly /\ \E i \in 1..MaxCalls : GenWake(i)
    \/ UNCHANGED partitionVars /\ ChatTimerTick
    \/ UNCHANGED partitionVars /\ ChatIdleTick

\* an upstream request is under way
InFlight ==
    \/ \E k \in DOMAIN tcalls : tcalls[k].pc = "fetch"
    \/ \E k \in DOMAIN ecalls : ecalls[k].pc = "request"
    \/ \E k \in DOMAIN gcalls : gcalls[k].pc = "call"

\* the latest time a timer of the termination scenarios runs out
LiveMaxTime == MaxTime + TeamRequestTimeout

\* Time passes up to the next pending timer, as often as timers are pending.
\* The upstream calls under way end before more than MaxBackoffs timers have
\* run out during upstream calls.
LiveTick ==
    LET deadlines == TeamDeadlines \cup EventsDeadlines \cup GenDeadlines IN
    /\ deadlines # {}
    /\ MinOf(deadlines) > clock
    /\ MinOf(deadlines) <= LiveMaxTime
    /\ InFlight => polls < MaxBackoffs
    /\ polls' = IF InFlight THEN polls + 1 ELSE polls
    /\ clock' = MinOf(deadlines)
    /\ UNCHANGED <<env, teamVars, eventsVars, chatVars>>

\* the steps of sendMessage one by one, for the fairness conditions
LiveSend == UNCHANGED partitionVars /\ \E message \in Queries : SendMessage(message)
LiveGenerate ==
    UNCHANGED <<teamVars, eventsVars, partitionVars>> /\ \E i \in 1..MaxCalls : SendGenerate(i)
LiveReturn ==
    UNCHANGED <<teamVars, eventsVars, partitionVars>> /\ \E i \in 1..MaxCalls : SendReturn(i)
LiveTeamWake == TeamOnly /\ \E i \in 1..MaxCalls : TeamWake(i)
LiveTeamResolve ==
    TeamOnly /\ \E i \in 1..MaxCalls, resp \in TeamResponses(env.rosters) : TeamResolve(i, resp)
LiveEventsResponse ==
    EventsOnly /\ \E i \in 1..MaxCalls, resp \in FewEventsResponses : EventsResponse(i, resp)
LiveEventsWake == EventsOnly /\ \E i \in 1..MaxCalls : EventsWake(i)
LiveGenResponse ==
    GenOnly /\ \E i \in 1..MaxCalls, out \in GenOutcomes :
                  out \in env.outcomes /\ GenResponse(i, out)
LiveGenWake == GenOnly /\ \E i \in 1..MaxCalls : GenWake(i)
LiveTimers == UNCHANGED partitionVars /\ LiveTick

LiveNext ==
    \/ LiveSend
    \/ LiveGenerate
    \/ LiveReturn
    \/ LiveTeamWake
    \/ LiveTeamResolve
    \/ LiveEventsResponse
    \/ LiveEventsWake
    \/ LiveGenResponse
    \/ LiveGenWake
    \/ LiveTimers

\* Every upstream call ends, every timer that has run out fires, time passes
\* up to the next timer and every continuation that is ready runs.
LiveFairness ==
    /\ WF_vars(LiveGenerate)
    /\ WF_vars(LiveReturn)
    /\ WF_vars(LiveTeamWake)
    /\ WF_vars(LiveTeamResolve)
    /\ WF_vars(LiveEventsResponse)
    /\ WF_vars(LiveEventsWake)
    /\ WF_vars(LiveGenResponse)
    /\ WF_vars(LiveGenWake)
    /\ WF_vars(LiveTimers)

-----------------------------------------------------------------------------
(* chatbotAPI: ping and checkGeminiHealth *)

PingDone == {i \in DOMAIN pings : pings[i].pc = "done"}

\* A call of ping(): t, e and g are its fetchTeamData call, its
\* fetchAndCacheEvents call and the generateAIResponse call of its
\* checkGeminiHealth; team, events and gemini are teamTest, eventsTest and
\* geminiTest.
NewPing ==
    [pc |-> "new", t |-> 0, e |-> 0, g |-> 0,
     team |-> None, events |-> None, gemini |-> None, ret |-> None]

\* fetchTeamData().then(...).catch(...): getMembers never rejects
TeamTest(t) == [status |-> "ok"]

\* fetchAndCacheEvents().then(...).catch(...): fetchAndCacheEvents never rejects
EventsTest(e) ==
    [status |-> "ok", upcoming |-> Len(ecalls[e].ret[1].upcomingEvents),
     past |-> Len(ecalls[e].ret[1].pastEvents)]

\* a health check that takes the fixed messages of generateAIResponse for
\* what they are
checkGeminiHealthByAnswer(g) ==
    /\ ~g.threw
    /\ g.ret # None
    /\ g.ret[1] \notin {NETWORK_ERROR, API_CONFIG_ERROR, EMPTY_RESPONSE, TIMEOUT_MESSAGE}

\* checkGeminiHealth: true unless generateAIResponse("Hello", ...) threw
checkGeminiHealth(g) == ~g.threw

\* checkGeminiHealth().then(ok => ({ status: ok ? 'ok' : 'error' }))
GeminiTest(ok) == [status |-> IF ok THEN "ok" ELSE "error"]

\* results.healthy
Healthy(teamTest, eventsTest, geminiTest) ==
    teamTest.status = "ok" /\ eventsTest.status = "ok" /\ geminiTest.status = "ok"

\* ping() up to its first await: fetchTeamData() is called.  The callers run
\* one health check at a time.
Ping ==
    /\ "ping" \in env.ops
    /\ Len(pings) < env.calls
    /\ PingDone = DOMAIN pings
    /\ TeamEnter("getMembers", NoArg)
    /\ pings' = Append(pings, [NewPing EXCEPT !.pc = "team", !.t = Len(tcalls) + 1])
    /\ UNCHANGED <<env, clock, polls, cachedData, retry, gcalls, scalls>>

\* The team read of ping i has resolved: teamTest, then fetchAndCacheEvents().
PingEvents(i) ==
    /\ i \in DOMAIN pings
    /\ pings[i].pc = "team"
    /\ tcalls[pings[i].t].pc = "done"
    /\ ecalls' = Append(ecalls, EventsEnter)
    /\ pings' = [pings EXCEPT ![i] = [@ EXCEPT !.pc = "events",
                    !.team = Some(TeamTest(pings[i].t)), !.e = Len(ecalls) + 1]]
    /\ UNCHANGED <<env, clock, polls, cachedEvents, lastEventsFetchTime, evPopAt,
                   retry, gcalls, scalls>>

\* The events read of ping i has resolved: eventsTest, then checkGeminiHealth().
PingGemini(i) ==
    /\ i \in DOMAIN pings
    /\ pings[i].pc = "events"
    /\ ecalls[pings[i].e].pc = "done"
    /\ gcalls' = Append(gcalls, GenEnter(JsString("Hello"), <<>>, NoEvents))
    /\ pings' = [pings EXCEPT ![i] = [@ EXCEPT !.pc = "gemini",
                    !.events = Some(EventsTest(pings[i].e)), !.g = Len(gcalls) + 1]]
    /\ UNCHANGED <<env, clock, polls, retry, scalls>>

\* generateAIResponse of ping i has settled: geminiTest and the results.  No
\* awaited promise of the try block rejects, so the outer catch does not run.
PingReturn(i) ==
    /\ i \in DOMAIN pings
    /\ pings[i].pc = "gemini"
    /\ gcalls[pings[i].g].pc = "done"
    /\ LET c == pings[i]
           geminiTest == GeminiTest(checkGeminiHealth(gcalls[c.g]))
       IN pings' = [pings EXCEPT ![i] = [@ EXCEPT !.pc = "done",
                !.gemini = Some(geminiTest),
                !.ret = Some([healthy |-> Healthy(c.team[1], c.events[1], geminiTest),
                              services |-> [team |-> c.team[1], events |-> c.events[1],
                                            gemini |-> geminiTest]])]]
    /\ UNCHANGED <<env, clock, polls, retry, gcalls, scalls>>

\* Time passes by the TTL of the caches between two health checks.
PingIdleTick ==
    /\ PingDone = DOMAIN pings
    /\ pings # <<>>
    /\ clock + cacheTimeout <= MaxTime
    /\ clock' = clock + cacheTimeout
    /\ UNCHANGED <<env, polls, teamVars, eventsVars, chatVars>>

PingNext ==
    \/ UNCHANGED <<eventsVars, partitionVars>> /\ Ping
    \/ UNCHANGED <<teamVars, partitionVars>> /\ \E i \in 1..MaxCalls : PingEvents(i)
    \/ UNCHANGED <<teamVars, eventsVars, partitionVars>> /\ \E i \in 1..MaxCalls : PingGemini(i)
    \/ UNCHANGED <<teamVars, eventsVars, partitionVars>> /\ \E i \in 1..MaxCalls : PingReturn(i)
    \/ TeamOnly /\ \E i \in 1..MaxCalls, resp \in TeamResponses(env.rosters) :
                       TeamResolve(i, resp)
    \/ EventsOnly /\ \E i \in 1..MaxCalls, resp \in FewEventsResponses :
                         EventsResponse(i, resp)
    \/ EventsOnly /\ \E i \in 1..MaxCalls : EventsWake(i)
    \/ GenOnly /\ \E i \in 1..MaxCalls, out \in GenOutcomes :
                      out \in env.outcomes /\ GenResponse(i, out)
    \/ GenOnly /\ \E i \in 1..MaxCalls : GenWake(i)
    \/ UNCHANGED partitionVars /\ ChatTimerTick
    \/ UNCHANGED partitionVars /\ PingIdleTick

-----------------------------------------------------------------------------
(* Specifications *)

\* the state after the modules are loaded
TeamStart ==
    /\ cachedData = None
    /\ lastFetch = 0
    /\ isFetching = FALSE
    /\ tcalls = <<>>
    /\ fetchCount = 0
    /\ fetchResults = <<>>
    /\ popAt = 0

EventsStart ==
    /\ cachedEvents = NoEvents
    /\ lastEventsFetchTime = 0
    /\ ecalls = <<>>
    /\ evPopAt = 0

Loaded ==
    /\ clock = StartTime
    /\ polls = 0
    /\ TeamStart
    /\ EventsStart
    /\ rawEvents = <<>>
    /\ processed = None
    /\ context = None
    /\ config = None
    /\ gcalls = <<>>
    /\ scalls = <<>>
    /\ pings = <<>>

Start ==
    /\ Loaded
    /\ retry = NewRetry(MAX_ATTEMPTS, INITIAL_DELAY)

\* Callers of getMembers and refresh over an upstream of three rosters.
TeamInit ==
    /\ env = [ops |-> {"getMembers", "refresh"}, rosters |-> FewRosters, calls |-> MaxCalls,
              maxAttempts |-> MAX_ATTEMPTS, outcomes |-> {}, messages |-> {}]
    /\ Start

TeamSpec == TeamInit /\ [][TeamNext]_vars

\* Callers of every operation of the manager, over a one-roster upstream.
TeamOpsInit ==
    /\ env = [ops |-> TeamOps,
              rosters |-> {s \in FewRosters : Len(s) = 1},
              calls |-> MaxCalls,
              maxAttempts |-> MAX_ATTEMPTS, outcomes |-> {}, messages |-> {}]
    /\ Start

TeamOpsSpec == TeamOpsInit /\ [][TeamNext]_vars

\* Callers of the derived reads and of clearCache, over an upstream of one
\* roster of four records.
DerivedInit ==
    /\ env = [ops |-> {"findByName", "findByRole", "getBoardMembers"},
              rosters |-> {s \in UpstreamRosters :
                            /\ Len(s) = 4 /\ s[1].name = NullName /\ s[2].name = "Bob"
                            /\ s[3].name = "carol" /\ s[4].name = "alice"},
              calls |-> MaxCalls,
              maxAttempts |-> MAX_ATTEMPTS, outcomes |-> {}, messages |-> {}]
    /\ Start

DerivedSpec == DerivedInit /\ [][TeamNext]_vars

\* The prompt of generateAIResponse for every query, roster and events value.
ContextInit ==
    /\ env = [ops |-> {}, rosters |-> {}, calls |-> 0,
              maxAttempts |-> MAX_ATTEMPTS, outcomes |-> {}, messages |-> {}]
    /\ Start

ContextSpec == ContextInit /\ [][ContextNext]_vars

\* Callers of fetchAndCacheEvents and clearEventsCache, one call more than
\* elsewhere, over an upstream that answers with one upcoming event, with one
\* past event, or not at all.
ClearInit ==
    /\ env = [ops |-> {"fetchAndCacheEvents", "clearEventsCache"}, rosters |-> {},
              calls |-> MaxCalls + 1,
              maxAttempts |-> MAX_ATTEMPTS, outcomes |-> {}, messages |-> {}]
    /\ Start

ClearSpec == ClearInit /\ [][ClearNext]_vars

\* Callers of fetchAndCacheEvents, one more than in the other scenarios,
\* while the upstream works or rejects the requests.
OutageInit ==
    /\ env = [ops |-> {"fetchAndCacheEvents"}, rosters |-> {}, calls |-> MaxCalls + 1,
              maxAttempts |-> MAX_ATTEMPTS, outcomes |-> {}, messages |-> {}]
    /\ Start

OutageSpec == OutageInit /\ [][OutageNext]_vars

\* The module config/constants.js loaded under every import.meta.env.
ConfigInit ==
    /\ env = [ops |-> {}, rosters |-> {}, calls |-> 0,
              maxAttempts |-> MAX_ATTEMPTS, outcomes |-> {}, messages |-> {}]
    /\ Start

ConfigSpec == ConfigInit /\ [][ConfigNext]_vars

\* getMembers over an upstream that answers with any ordering of any roster.
RosterInit ==
    /\ env = [ops |-> {"getMembers"}, rosters |-> UpstreamRosters, calls |-> MaxCalls,
              maxAttempts |-> MAX_ATTEMPTS, outcomes |-> {}, messages |-> {}]
    /\ Start

RosterSpec == RosterInit /\ [][TeamNext]_vars

\* Callers of fetchAndCacheEvents and clearEventsCache.
EventsInit ==
    /\ env = [ops |-> {"fetchAndCacheEvents"}, rosters |-> {}, calls |-> MaxCalls,
              maxAttempts |-> MAX_ATTEMPTS, outcomes |-> {}, messages |-> {}]
    /\ Start

EventsSpec == EventsInit /\ [][EventsNext]_vars

\* processEventsData applied to every upstream list of at most MaxEvents events.
PartitionInit ==
    /\ env = [ops |-> {}, rosters |-> {}, calls |-> 0,
              maxAttempts |-> MAX_ATTEMPTS, outcomes |-> {}, messages |-> {}]
    /\ Start

PartitionSpec == PartitionInit /\ [][PartitionNext]_vars

\* retryWithBackoff over a fn that resolves or rejects as it likes, for every
\* maxRetries from 1 to MaxRetries.
RetryInit ==
    /\ env = [ops |-> {}, rosters |-> {}, calls |-> 0,
              maxAttempts |-> MAX_ATTEMPTS, outcomes |-> {}, messages |-> {}]
    /\ Loaded
    /\ retry \in {NewRetry(m, d) : m \in 1..MaxRetries, d \in RetryDelays}

RetrySpec == RetryInit /\ [][RetryNext]_vars

\* One caller of generateAIResponse at a time, over every query and every
\* outcome of the generation endpoint; the calls share no state.
GenerateInit ==
    /\ env = [ops |-> {"generateAIResponse"}, rosters |-> {}, calls |-> 1,
              maxAttempts |-> MAX_ATTEMPTS, outcomes |-> GenOutcomes,
              messages |-> Queries]
    /\ Start

GenerateSpec == GenerateInit /\ [][GenNext]_vars

\* One caller of generateAIResponse with a question, with VITE_MAX_RETRIES
\* set to each count from 1 to MaxRetries, over every outcome of the endpoint.
AttemptsInit ==
    /\ env \in [ops : {{"generateAIResponse"}}, rosters : {{}}, calls : {1},
                 maxAttempts : 1..MaxRetries, outcomes : {GenOutcomes},
                 messages : {{JsString("Who is the president?")}}]
    /\ Start

AttemptsSpec == AttemptsInit /\ [][GenNext]_vars

\* the outcomes of the generation endpoint in the scenarios of sendMessage:
\* an answer and a 500
FewOutcomes ==
    { o \in GenOutcomes :
        \/ o.ok /\ o.val.status = OK /\ o.val.text = JsString("alice is the President.")
        \/ ~o.ok /\ o.val.status = SERVER_ERROR }

\* Callers of sendMessage, with the default number of attempts configured or
\* with VITE_MAX_RETRIES=-1.
SendInit ==
    /\ env \in [ops : {{"sendMessage"}},
                 rosters : {{s \in FewRosters : Len(s) = 1}},
                 calls : {MaxCalls},
                 maxAttempts : {MAX_ATTEMPTS, -1},
                 outcomes : {FewOutcomes},
                 messages : {{JsString("Who is the president?"), JsString(""),
                              JsString("   "), Js("number", "42")}}]
    /\ Start

SendSpec == SendInit /\ [][SendNext]_vars

\* Callers of sendMessage with a valid message, under the fairness of the
\* upstream calls, the timers and the continuations: MaxCalls messages with
\* one attempt configured, where getMembers waits for the fetch of another
\* message, or one message with two attempts, where the backoff timers run.
LiveInit ==
    /\ env \in { [ops |-> {"sendMessage"},
                   rosters |-> {s \in FewRosters : Len(s) = 1},
                   calls |-> c.calls,
                   maxAttempts |-> c.maxAttempts,
                   outcomes |-> FewOutcomes,
                   messages |-> {JsString("Who is the president?")}] :
                 c \in { [calls |-> MaxCalls, maxAttempts |-> 1],
                         [calls |-> 1, maxAttempts |-> 2] } }
    /\ Start

LiveSpec == LiveInit /\ [][LiveNext]_vars /\ LiveFairness

\* the outcomes of the generation endpoint in the scenarios of ping: an
\* answer, a 500, and no connection
PingOutcomes ==
    FewOutcomes \cup { o \in GenOutcomes : ~o.ok /\ o.val.code = "ERR_NETWORK" }

\* Callers of ping, with the default number of attempts configured, with one
\* attempt, or with VITE_MAX_RETRIES=-1.
PingInit ==
    /\ env \in [ops : {{"ping"}},
                 rosters : {{s \in FewRosters : Len(s) = 1}},
                 calls : {MaxCalls},
                 maxAttempts : {MAX_ATTEMPTS, 1, -1},
                 outcomes : {PingOutcomes},
                 messages : {{}}]
    /\ Start

PingSpec == PingInit /\ [][PingNext]_vars

-----------------------------------------------------------------------------
(* Team cache: claims *)

Fetching == {i \in DOMAIN tcalls : tcalls[i].pc = "fetch"}
Done == {i \in DOMAIN tcalls : tcalls[i].pc = "done"}

\* C1: in every reachable state at most one upstream team fetch started through
\* getMembers is in flight, whatever mix of getMembers, findByName, findByRole,
\* getBoardMembers, refresh and clearCache the callers run.
C1_SingleFlight == Cardinality(Fetching) <= 1

\* a derived read waits while the fetch of another call is in flight, after a clearCache
C1_Witness ==
    \E i, j \in DOMAIN tcalls :
        /\ tcalls[i].pc = "fetch"
        /\ tcalls[j].pc = "wait"
        /\ tcalls[j].op \in {"findByName", "findByRole", "getBoardMembers"}
        /\ ~tcalls[i].clean

C3_GracefulDegradation ==
    \A i \in Done :
        LET c == tcalls[i] IN
        (c.fetched /\ ~c.ok) =>
            IF c.prior # None
            THEN c.members = c.prior /\ c.stored = c.prior
            ELSE c.members = Some(<<>>)

\* C4: a read issued less than the TTL after the read that populated the cache
\* (no clearCache or refresh in between) returns the cached value at once and
\* starts no upstream fetch.
C4_Freshness ==
    \A i \in DOMAIN tcalls :
        LET c == tcalls[i] IN
        c.hit =>
            /\ c.pc = "done"
            /\ ~c.fetched
            /\ c.members # None
            /\ c.members = c.issueCache
            /\ c.fcRet = c.fcIssue

\* a read 100 ms short of the TTL after the populating read was answered by the cache
C4_Witness ==
    \E i \in Done :
        /\ tcalls[i].hit
        /\ tcalls[i].now = popAt + cacheTimeout - PollDelay
        /\ fetchCount = 1

\* C6: a read issued at or after t0 + TTL, t0 the time of the populating read,
\* with no fetch in flight, starts one upstream fetch, and when it returns the
\* cache holds exactly the result of that fetch, stamped with the read's time.
C6_Staleness ==
    \A i \in DOMAIN tcalls :
        LET c == tcalls[i] IN
        c.staleIssue =>
            /\ c.fetched
            /\ c.pc # "wait"
            /\ c.pc = "done" =>
                  /\ c.fcRet = c.fcIssue + 1
                  /\ c.stored = fetchResults[c.fcRet]
                  /\ c.stored = c.members
                  /\ c.storedAt = c.now

\* a read exactly one TTL after the populating read replaced a different roster
C6_Witness ==
    \E i \in Done :
        /\ tcalls[i].staleIssue
        /\ tcalls[i].ok
        /\ tcalls[i].prior # None
        /\ tcalls[i].prior # tcalls[i].stored
        /\ \E j \in Done : tcalls[j].fetched /\ tcalls[i].now = tcalls[j].now + cacheTimeout

\* C7: isFetching is true exactly while an upstream team fetch is in flight, and
\* every call that has returned returned a sequence.
C7_GuardNeverStuck ==
    /\ isFetching <=> (Fetching # {})
    /\ \A i \in Done : tcalls[i].members # None

\* a fetch that failed has ended and the flag is down again
C7_Witness ==
    /\ ~isFetching
    /\ \E i \in Done : tcalls[i].fetched /\ ~tcalls[i].ok

\* names under case-normalised lexical order
LowerCaseRank == [n \in {"alice", "Bob", "carol"} |->
                    CASE n = "alice" -> 1 [] n = "Bob" -> 2 [] n = "carol" -> 3]

SortedRoster(s) ==
    \A i, j \in DOMAIN s :
        i < j => \/ s[i].year > s[j].year
                 \/ s[i].year = s[j].year /\ LowerCaseRank[s[i].name] <= LowerCaseRank[s[j].name]

\* C10: whatever the order of the upstream roster, the sequence getMembers
\* returns after a successful fetch has no member with a null name and is
\* ordered by year descending, then by name ascending.
C10_SortInvariant ==
    \A i \in Done :
        LET c == tcalls[i] IN
        (c.fetched /\ c.ok) =>
            /\ \A k \in DOMAIN c.members[1] : c.members[1][k].name # NullName
            /\ SortedRoster(c.members[1])

\* a roster of three named members was returned after a successful fetch
C10_Witness ==
    \E i \in Done :
        /\ tcalls[i].fetched /\ tcalls[i].ok
        /\ Len(tcalls[i].members[1]) = 3

-----------------------------------------------------------------------------
(* Events cache: claims *)

EventsDone == {i \in DOMAIN ecalls : ecalls[i].pc = "done"}

\* C5 as claimed: a read made less than the events TTL after a read stored a
\* fetched result (no clearEventsCache in between) calls the upstream not once
\* and returns at once, whatever the stored event set contains.
C5_EventsFreshness ==
    \A i \in DOMAIN ecalls :
        ecalls[i].timeFresh => ecalls[i].attempt = 0 /\ ecalls[i].pc = "done"

PastIds == {i \in DOMAIN rawEvents : rawEvents[i].info # None /\ rawEvents[i].info[1].isEventPast}
UpcomingIds ==
    {i \in DOMAIN rawEvents : rawEvents[i].info # None /\ ~rawEvents[i].info[1].isEventPast}

CountDate(infos, d) == Cardinality({k \in DOMAIN infos : infos[k].eventDate = d})
RawCountDate(d) == Cardinality({i \in PastIds : rawEvents[i].info[1].eventDate = d})

\* C9: upcoming holds exactly the upstream records whose info says not past,
\* whole and in upstream order; past holds infos only, all of them past, at
\* most 5, by date descending, and they are the most recent past events.
C9_EventPartition ==
    processed # None =>
        LET up == processed[1].upcomingEvents
            past == processed[1].pastEvents
        IN /\ \A k \in DOMAIN up : up[k] = rawEvents[up[k].id] /\ up[k].id \in UpcomingIds
           /\ \A k, l \in DOMAIN up : k < l => up[k].id < up[l].id
           /\ Len(up) = Cardinality(UpcomingIds)
           /\ \A k \in DOMAIN past :
                 /\ DOMAIN past[k] = {"eventDate", "isEventPast"}
                 /\ past[k].isEventPast
           /\ Len(past) <= 5
           /\ Len(past) = IF Cardinality(PastIds) < 5 THEN Cardinality(PastIds) ELSE 5
           /\ \A k, l \in DOMAIN past :
                 k < l => DateTime[past[k].eventDate] >= DateTime[past[l].eventDate]
           /\ \A d \in DOMAIN DateTime :
                 /\ CountDate(past, d) <= RawCountDate(d)
                 /\ (\E k \in DOMAIN past : DateTime[past[k].eventDate] < DateTime[d])
                       => CountDate(past, d) = RawCountDate(d)

\* six past events of three dates, an upcoming one and one without info were
\* partitioned, and the oldest past event was cut off
C9_Witness ==
    /\ processed # None
    /\ Cardinality(PastIds) > 5
    /\ Cardinality({rawEvents[i].info[1].eventDate : i \in PastIds}) = 3
    /\ \E i, j \in PastIds :
          i < j /\ DateTime[rawEvents[i].info[1].eventDate] < DateTime[rawEvents[j].info[1].eventDate]
    /\ Len(processed[1].pastEvents) = 5
    /\ Len(processed[1].upcomingEvents) > 0

-----------------------------------------------------------------------------
(* retryWithBackoff: claims *)

RECURSIVE Pow2(_)
Pow2(n) == IF n = 0 THEN 1 ELSE 2 * Pow2(n - 1)

Failures(log) == {k \in DOMAIN log : ~log[k].ok}

\* C11: fn is invoked until its first success or until maxAttempts invocations
\* have failed, and never more than maxAttempts times: while the run goes on
\* every invocation so far has failed; a run that returned made its only
\* successful invocation last; a run that threw made maxAttempts invocations,
\* all failed.  So fail, fail, succeed under maxAttempts = 3 is three
\* invocations and the success value, and fail, fail under maxAttempts = 2 is
\* two invocations and a failure.
C11_RetryCount ==
    LET r == retry IN
    /\ r.calls <= r.maxRetries
    /\ r.calls = Len(r.log) + (IF r.pc = "call" THEN 1 ELSE 0)
    /\ r.pc \in {"call", "sleep"} => Failures(r.log) = DOMAIN r.log
    /\ (r.pc = "done" /\ ~r.threw) =>
            /\ Failures(r.log) = 1..(Len(r.log) - 1)
            /\ r.result = Some(r.log[Len(r.log)].val)
    /\ (r.pc = "done" /\ r.threw) =>
            /\ r.calls = r.maxRetries
            /\ Failures(r.log) = 1..r.maxRetries

\* fail, fail, succeed under maxAttempts = 3 has returned
C11_Witness ==
    /\ retry.pc = "done"
    /\ retry.maxRetries = 3
    /\ Len(retry.log) = 3
    /\ ~retry.log[1].ok /\ ~retry.log[2].ok /\ retry.log[3].ok
    /\ retry.calls = 3

\* C12: a failure leaves retryWithBackoff only after maxAttempts failed
\* attempts and is the error of the last of them; a success is returned at
\* once, no invocation follows it.
C12_FailureBoundary ==
    LET r == retry IN
    /\ r.threw =>
            /\ r.pc = "done"
            /\ Len(r.log) = r.maxRetries
            /\ Failures(r.log) = DOMAIN r.log
            /\ r.error = Some(r.log[r.maxRetries].val)
    /\ \A k \in DOMAIN r.log :
            r.log[k].ok => /\ k = Len(r.log)
                           /\ r.pc = "done" /\ ~r.threw
                           /\ r.calls = k
                           /\ r.result = Some(r.log[k].val)

\* two attempts failed with different errors under maxAttempts = 2, and the
\* second error was thrown
C12_Witness ==
    /\ retry.pc = "done" /\ retry.threw
    /\ retry.maxRetries = 2
    /\ Len(retry.log) = 2
    /\ retry.log[1].val # retry.log[2].val
    /\ retry.error = Some(retry.log[2].val)

\* C13: the wait after failed attempt k < maxAttempts is initialDelay * 2^(k-1);
\* there is one wait per failed attempt before the last invocation and none
\* after the final failure or after a success.
C13_DelaySchedule ==
    LET r == retry IN
    /\ \A k \in DOMAIN r.waited : r.waited[k] = r.initialDelay * Pow2(k - 1)
    /\ r.pc = "sleep" =>
            /\ r.attempt < r.maxRetries
            /\ r.wakeAt - r.failAt = r.initialDelay * Pow2(r.attempt - 1)
            /\ Len(r.waited) = r.attempt - 1
    /\ r.pc = "call" => Len(r.waited) = r.attempt - 1
    /\ r.pc = "done" => Len(r.waited) = Len(r.log) - 1

\* the third attempt under the default delay has failed for good after waits
\* of 1000 and 2000
C13_Witness ==
    /\ retry.pc = "done" /\ retry.threw
    /\ retry.initialDelay = INITIAL_DELAY
    /\ retry.waited = <<1000, 2000>>

-----------------------------------------------------------------------------
(* fetchWithBackoff: claims *)

\* C14 as claimed: a read of the events cache calls the upstream at most
\* maxAttempts times, and request k+1 of a read comes after a wait of
\* initialDelay * 2^(k-1), whatever made request k unsuccessful.  The wait
\* before a request is the delay of the call, which doubles when the wait is
\* over: a call that has waited after each of its first k requests has made
\* request k+1 with a delay of initialDelay * 2^k.
C14_EventsRetry ==
    \A i \in DOMAIN ecalls :
        LET c == ecalls[i] IN
        /\ c.attempt <= MAX_ATTEMPTS
        /\ c.pc = "backoff" => c.wakeAt - clock <= c.delay
        /\ (c.attempt >= 2 /\ c.pc # "backoff") =>
                c.delay = INITIAL_DELAY * Pow2(c.attempt - 1)

-----------------------------------------------------------------------------
(* generateAIResponse: claims *)

GenDone == {i \in DOMAIN gcalls : gcalls[i].pc = "done"}

FixedMessages == {API_CONFIG_ERROR, EMPTY_RESPONSE, TIMEOUT_MESSAGE, NETWORK_ERROR}

\* what the last axios.post of call g ended with
LastOutcome(g) == g.r.log[Len(g.r.log)]

\* the last axios.post of call g brought a 200 response with a usable text
Answered(g) ==
    /\ g.r.log # <<>>
    /\ LastOutcome(g).ok
    /\ LastOutcome(g).val.status = OK
    /\ LastOutcome(g).val.text.type = "string"
    /\ LastOutcome(g).val.text.str \notin WhitespaceOnly

C16_GenerationCategories ==
    \A i \in GenDone :
        LET g == gcalls[i]
            last == LastOutcome(g)
        IN (~InvalidQuery(g.query) /\ ~Answered(g) /\ g.r.log # <<>>) =>
            g.ret = Some(
                IF ~last.ok /\ last.val.status \in {BAD_REQUEST, FORBIDDEN}
                THEN API_CONFIG_ERROR
                ELSE IF last.ok /\ last.val.status = OK THEN EMPTY_RESPONSE
                ELSE IF ~last.ok /\ last.val.code = "ECONNABORTED" THEN TIMEOUT_MESSAGE
                ELSE NETWORK_ERROR)

\* after a timeout and a 500 the last attempt was answered 403, and the
\* configuration message came back
C16_Witness ==
    \E i \in GenDone :
        LET g == gcalls[i] IN
        /\ Len(g.r.log) = 3
        /\ ~g.r.log[1].ok /\ g.r.log[1].val.code = "ECONNABORTED"
        /\ ~g.r.log[3].ok /\ g.r.log[3].val.status = FORBIDDEN
        /\ g.ret = Some(API_CONFIG_ERROR)

\* C18: a call of generateAIResponse with an empty or blank query (or one
\* that is no string) has thrown the input-validation error by the time it
\* is first seen, with no context built and no call of the endpoint.
C18_QueryValidation ==
    \A i \in DOMAIN gcalls :
        LET g == gcalls[i] IN
        (Falsy(g.query) \/ g.query.type # "string" \/ g.query.str \in WhitespaceOnly) =>
            /\ g.pc = "done"
            /\ g.threw /\ g.error = QueryError /\ g.ret = None
            /\ ~g.built
            /\ g.r.calls = 0 /\ g.r.log = <<>>

\* a query of blanks was rejected
C18_Witness ==
    \E i \in GenDone :
        /\ gcalls[i].query = JsString("   ")
        /\ gcalls[i].threw

-----------------------------------------------------------------------------
(* sendMessage: claims *)

\* the calls of sendMessage that have called generateAIResponse
Generated == {i \in DOMAIN scalls : scalls[i].g # 0}

\* C17: a call of sendMessage with an empty or blank message, or one that is
\* no string, returns {success: false, response: INVALID_INPUT} in the step
\* it is made in, and that step starts no team fetch, no events fetch and no
\* generation call and leaves both caches and isFetching as they were.
C17_InvalidInput ==
    \A i \in DOMAIN scalls :
        LET c == scalls[i] IN
        (c.message.type # "string" \/ c.message.str \in WhitespaceOnly) =>
            /\ c.pc = "done"
            /\ c.ret = Some(Envelope(FALSE, INVALID_INPUT, None, None))
            /\ c.quiet
            /\ c.t = 0 /\ c.e = 0 /\ c.g = 0

\* a blank message was answered while the team fetch of an earlier message
\* was in flight
C17_Witness ==
    \E i, j \in DOMAIN scalls :
        /\ i < j
        /\ scalls[i].pc = "reads" /\ isFetching
        /\ scalls[j].message = JsString("   ")
        /\ scalls[j].pc = "done"
        /\ scalls[j].ret = Some(Envelope(FALSE, INVALID_INPUT, None, None))

\* every call with a valid message calls generateAIResponse once, with its
\* own message, when its reads are over
OneGeneration ==
    /\ Len(gcalls) = Cardinality(Generated)
    /\ \A i, j \in Generated : i # j => scalls[i].g # scalls[j].g
    /\ \A i \in Generated : gcalls[scalls[i].g].query = scalls[i].message
    /\ \A i \in SendDone :
            scalls[i].message = JsString("Who is the president?") => i \in Generated

\* the roster handed to generateAIResponse is empty when the team fetch of the
\* call failed and is the fetched roster when it succeeded
TeamLegPassed(i) ==
    LET t == tcalls[scalls[i].t]
        g == gcalls[scalls[i].g]
    IN /\ (t.fetched /\ ~t.ok) => g.teamMembers = <<>>
       /\ (t.fetched /\ t.ok) => g.teamMembers = t.stored[1]

\* C19, amended: for a valid message generateAIResponse is called exactly
\* once, whichever reads failed; a failed team fetch passes the empty roster;
\* a failed events fetch passes the events cached before it (two empty lists
\* when nothing was cached); a fetch that succeeded passes what it fetched.
C19_PartialData ==
    /\ OneGeneration
    /\ \A i \in Generated :
        LET e == ecalls[scalls[i].e]
            g == gcalls[scalls[i].g]
        IN /\ TeamLegPassed(i)
           /\ e.failed => g.events = e.cacheBefore[1]
           /\ ~e.failed => g.events = e.ret[1]

\* both reads of a message failed while a past event was cached: the empty
\* roster and the cached event were handed on
C19_Witness ==
    \E i \in Generated :
        LET t == tcalls[scalls[i].t]
            e == ecalls[scalls[i].e]
            g == gcalls[scalls[i].g]
        IN /\ t.fetched /\ ~t.ok /\ t.prior # None /\ t.prior # Some(<<>>)
           /\ e.failed /\ Len(e.cacheBefore[1].pastEvents) = 1
           /\ g.teamMembers = <<>>
           /\ g.events = e.cacheBefore[1]

\* C19 as claimed: a failed events fetch passes two empty lists.
C19_AsClaimed ==
    /\ OneGeneration
    /\ \A i \in Generated :
        LET e == ecalls[scalls[i].e]
            g == gcalls[scalls[i].g]
        IN /\ TeamLegPassed(i)
           /\ e.failed => g.events = NoEvents
           /\ ~e.failed => g.events = e.ret[1]

\* C20: a call of sendMessage that is over has resolved with an envelope and
\* has not thrown, whatever the message and the upstreams were; when
\* generateAIResponse threw, the envelope is {success: false, response:
\* NETWORK_ERROR, error: the message of what was thrown}.
C20_NeverThrows ==
    \A i \in SendDone :
        LET c == scalls[i] IN
        /\ ~c.threw
        /\ c.ret # None
        /\ c.ret[1].success \in BOOLEAN
        /\ (c.g # 0 /\ gcalls[c.g].threw) =>
                c.ret = Some(Envelope(FALSE, NETWORK_ERROR, Some(gcalls[c.g].error), None))

\* generateAIResponse threw inside a call of sendMessage that has returned
C20_Witness ==
    \E i \in SendDone :
        /\ scalls[i].g # 0
        /\ gcalls[scalls[i].g].threw
        /\ scalls[i].ret[1].error = Some(UndefinedError)

\* C21: a call of sendMessage with a valid message, whose generateAIResponse
\* returned the string s for the roster and the events handed to it, returns
\* {success: true, response: s, metadata} with the counts of that roster and
\* of those upcoming and past events, also when s is one of the fixed error
\* messages; generateAIResponse does return whenever an attempt is configured.
C21_SuccessEnvelope ==
    \A i \in SendDone :
        LET c == scalls[i] IN
        c.g # 0 =>
            LET g == gcalls[c.g] IN
            /\ RETRY_MAX_ATTEMPTS >= 1 => ~g.threw
            /\ ~g.threw =>
                /\ c.ret[1].success = TRUE
                /\ c.ret[1].response = g.ret[1]
                /\ c.ret[1].metadata =
                        Some([teamMembersCount |-> Len(TeamLeg(c.t)),
                              upcomingEventsCount |-> Len(EventsLeg(c.e).upcomingEvents),
                              pastEventsCount |-> Len(EventsLeg(c.e).pastEvents)])

\* a message was answered with success and the network-error message, for a
\* roster of one member and one past event
C21_Witness ==
    \E i \in SendDone :
        /\ scalls[i].g # 0
        /\ scalls[i].ret[1].success
        /\ scalls[i].ret[1].response = NETWORK_ERROR
        /\ scalls[i].ret[1].metadata =
                Some([teamMembersCount |-> 1, upcomingEventsCount |-> 0,
                      pastEventsCount |-> 1])

\* C22: a call of sendMessage with a valid message has started both its team
\* read and its events read when it first awaits; its generation call exists
\* only once both reads have resolved, and was handed exactly the roster and
\* the events those two reads returned; no request of the generation client
\* is made for a call whose reads are still pending.
C22_Ordering ==
    \A i \in DOMAIN scalls :
        LET c == scalls[i] IN
        /\ c.pc = "reads" => c.g = 0
        /\ c.pc \in {"reads", "generate"} \/ c.t # 0 \/ c.e # 0 \/ c.g # 0 =>
                c.t \in DOMAIN tcalls /\ c.e \in DOMAIN ecalls
        /\ c.g # 0 =>
                /\ tcalls[c.t].pc = "done"
                /\ ecalls[c.e].pc = "done"
                /\ gcalls[c.g].teamMembers = tcalls[c.t].members[1]
                /\ gcalls[c.g].events = ecalls[c.e].ret[1]
        /\ Len(gcalls) = Cardinality({k \in DOMAIN scalls : scalls[k].g # 0})

\* one message has been passed on with a member and a past event, and a later
\* one has both of its reads in flight at once
C22_Witness ==
    \E i, j \in DOMAIN scalls :
        /\ scalls[i].g # 0
        /\ gcalls[scalls[i].g].built
        /\ gcalls[scalls[i].g].teamMembers # <<>>
        /\ gcalls[scalls[i].g].events.pastEvents # <<>>
        /\ scalls[j].pc = "reads"
        /\ tcalls[scalls[j].t].pc = "fetch"
        /\ ecalls[scalls[j].e].pc = "request"

-----------------------------------------------------------------------------
(* ping: claims *)

\* the upstream request or requests of each sub-check of ping c ended in failure
TeamCheckFailed(c) == tcalls[c.t].fetched /\ ~tcalls[c.t].ok
EventsCheckFailed(c) == ecalls[c.e].failed
GeminiCheckFailed(c) == gcalls[c.g].threw \/ gcalls[c.g].r.threw

\* C23 as claimed: the healthy field of what ping returns is true exactly when
\* its three sub-checks report status ok, and a sub-check that failed, of any
\* one of the three services, makes healthy false.
C23_HealthAggregation ==
    \A i \in PingDone :
        LET c == pings[i] IN
        /\ c.ret[1].healthy <=>
                /\ c.ret[1].services.team.status = "ok"
                /\ c.ret[1].services.events.status = "ok"
                /\ c.ret[1].services.gemini.status = "ok"
        /\ TeamCheckFailed(c) \/ EventsCheckFailed(c) \/ GeminiCheckFailed(c) =>
                ~c.ret[1].healthy

-----------------------------------------------------------------------------
(* Events cache: concurrent reads and clearEventsCache *)

EventsRequesting == {i \in DOMAIN ecalls : ecalls[i].pc = "request"}

\* C24: a call of fetchAndCacheEvents that starts on a cache that is cold or
\* older than its TTL makes an upstream request of its own, whether or not a
\* request of an earlier call is still in flight: no call is answered or parked
\* on behalf of another call's request.
C24_NoSingleFlight ==
    \A i \in DOMAIN ecalls :
        LET c == ecalls[i] IN
        /\ ~c.timeFresh => c.attempt >= 1
        /\ c.pc # "done" => c.pc \in {"request", "backoff"} /\ c.attempt >= 1

\* two upstream events requests are in flight at once, both started on the
\* cold cache
C24_Witness ==
    /\ Cardinality(EventsRequesting) >= 2
    /\ \A i \in EventsRequesting : ~ecalls[i].timeFresh /\ ecalls[i].attempt = 1
    /\ lastEventsFetchTime = 0

\* C28 as claimed: the first call of fetchAndCacheEvents after
\* clearEventsCache() has returned makes an upstream request, and so does not
\* return what was requested before the clear, whatever reads were in flight
\* when the cache was cleared.
C28_ClearForcesRefresh ==
    \A i \in DOMAIN ecalls :
        (\E k \in 1..(i - 1) : ecalls[k].clearedAt = i - 1) => ecalls[i].attempt >= 1

-----------------------------------------------------------------------------
(* TeamDataManager: derived reads and refresh *)

DerivedOps == {"findByName", "findByRole", "getBoardMembers"}

\* the members of a sequence
Range(s) == {s[k] : k \in DOMAIN s}

\* C25: findByName, findByRole and getBoardMembers go through getMembers and
\* nothing else: on a fresh cache they return at once without an upstream
\* call and with the counters and the cache as they were; on a stale cache
\* with no fetch in flight they make the one fetch of getMembers, which stores
\* the whole roster and not the filtered value; and what they return is a
\* filter of what their getMembers returned, in its order.
C25_DerivedReads ==
    \A i \in DOMAIN tcalls :
        LET c == tcalls[i] IN
        c.op \in DerivedOps =>
            /\ c.hit => /\ c.pc = "done" /\ ~c.fetched
                        /\ c.fcRet = c.fcIssue
                        /\ c.members = c.issueCache
            /\ c.staleIssue => c.fetched
            /\ c.fetched => fetchCount >= c.fcIssue + 1
            /\ c.pc = "done" /\ c.fetched => c.stored = c.members
            /\ c.pc = "done" =>
                    IF c.op = "findByName"
                    THEN /\ c.ret[1] # None =>
                                /\ c.ret[1][1] \in Range(c.members[1])
                                /\ NameMatches(c.ret[1][1], c.arg)
                         /\ c.ret[1] = None =>
                                \A m \in Range(c.members[1]) : ~NameMatches(m, c.arg)
                    ELSE /\ c.ret[1] = FilterSeq(c.members[1], Range(c.ret[1]))
                         /\ \A m \in Range(c.members[1]) :
                                m \in Range(c.ret[1]) <=>
                                    IF c.op = "findByRole" THEN RoleMatches(m, c.arg)
                                    ELSE m.access \in boardAccessCodes

\* findByRole("DIRECTOR") has fetched a roster of three and returned carol
\* alone, and findByName("BO") has then found Bob in the fresh cache
C25_Witness ==
    \E i, j \in Done :
        /\ tcalls[i].op = "findByRole" /\ tcalls[i].arg = "DIRECTOR"
        /\ tcalls[i].fetched /\ tcalls[i].ok
        /\ Len(tcalls[i].members[1]) = 3
        /\ tcalls[i].ret[1] =
                <<[name |-> "carol", year |-> 2025, access |-> "DIRECTOR_TECHNICAL"]>>
        /\ tcalls[j].op = "findByName" /\ tcalls[j].arg = "BO"
        /\ tcalls[j].hit /\ ~tcalls[j].fetched
        /\ tcalls[j].ret[1] = Some([name |-> "Bob", year |-> 2024, access |-> "MEMBER"])

\* C27 as claimed: what refresh() returns is the result of an upstream fetch
\* that was started at or after the call of refresh, that is of a fetch later
\* than all those counted when it was called, also when the cache was fresh
\* and also when a fetch of another read was in flight at the call.
C27_ForcedRefresh ==
    \A i \in Done :
        LET c == tcalls[i] IN
        c.op = "refresh" =>
            \E k \in (c.fcIssue + 1)..Len(fetchResults) : fetchResults[k] = c.members

-----------------------------------------------------------------------------
(* prepareContext: claims *)

\* where a line stands in a prompt
Positions(p, line) == {k \in DOMAIN p : p[k] = line}

\* C26: for every roster and events value the prompt of a valid query starts
\* with the team section, whose START and END markers enclose the serialized
\* roster and so every field of every member; then comes the upcoming-events
\* section and after it the past-events section, each with its list, the past
\* one whether or not there is an upcoming event; and the prompt ends with the
\* query as it was given.
C26_ContextStructure ==
    context # None /\ context[1].prompt # None =>
        LET c == context[1]
            p == c.prompt[1]
            a == Positions(p, TEAM_END)
            b == Positions(p, EVENT_START)
            d == Positions(p, EVENT_END)
            f == Positions(p, PAST_LABEL)
            g == Positions(p, PAST_END)
        IN /\ Positions(p, TEAM_START) = {1}
           /\ \A S \in {a, b, d, f, g} : Cardinality(S) = 1
           /\ \A ka \in a, kb \in b, kd \in d, kf \in f, kg \in g :
                /\ ka < kb /\ kb < kd /\ kd < kf /\ kf < kg /\ kg < Len(p)
                /\ SubSeq(p, 3, ka - 1) = JsonMembers(c.teamMembers)
                /\ \A m \in Range(c.teamMembers) :
                        \E k \in 3..(ka - 7) :
                            /\ p[k + 2] = (IF m.name = NullName THEN "null" ELSE m.name)
                            /\ p[k + 4] = ToString(m.year)
                            /\ p[k + 6] = m.access
                /\ SubSeq(p, kb + 2, kd - 1) = JsonEvents(c.events.upcomingEvents)
                /\ SubSeq(p, kf + 1, kg - 1) = JsonInfos(c.events.pastEvents)
           /\ p[Len(p)] = c.query.str
           /\ p[Len(p) - 1] = QUERY_LABEL

\* a prompt was built for a roster of two, one upcoming event and one past
\* event, and it has the past-events section
C26_Witness ==
    /\ context # None
    /\ context[1].prompt # None
    /\ Len(context[1].teamMembers) = 2
    /\ Len(context[1].events.upcomingEvents) = 1
    /\ Len(context[1].events.pastEvents) = 1
    /\ Positions(context[1].prompt[1], PAST_LABEL) # {}
    /\ context[1].prompt[1][Len(context[1].prompt[1])] = "Who is the president?"

-----------------------------------------------------------------------------
(* config/constants.js: claims *)

\* the values the configuration surface requires: base API URL, generation
\* API key, generation model, system instruction text
RequiredValues ==
    {"VITE_API_BASE_URL", "VITE_GEMINI_API_KEY", "VITE_GEMINI_MODEL", "VITE_SYSTEM_PROMPT"}

\* C29 as claimed: loading the configuration fails exactly when one of the
\* base API URL, the generation API key, the generation model and the system
\* instruction text is missing, and the error then names the missing ones;
\* with all of them present it succeeds and CONFIG is there.
C29_FailFast ==
    config # None =>
        LET c == config[1]
            absent == {v \in RequiredValues : Falsy(c.metaEnv[v])}
        IN /\ c.threw <=> absent # {}
           /\ c.threw => absent \subseteq Range(c.missing)
           /\ ~c.threw <=> c.CONFIG # None

-----------------------------------------------------------------------------
(* Termination *)

\* C30: when every upstream call ends and the timers run, every call of
\* sendMessage returns and so does every call of getMembers, the one that finds
\* a fetch in flight and waits 100 ms at a time included.
C30_Termination ==
    /\ \A i \in 1..MaxCalls :
            (Len(scalls) >= i) ~> (Len(scalls) >= i /\ scalls[i].pc = "done")
    /\ \A i \in 1..MaxCalls :
            (Len(tcalls) >= i) ~> (Len(tcalls) >= i /\ tcalls[i].pc = "done")
    /\ \A i \in 1..MaxCalls :
            (Len(tcalls) >= i /\ tcalls[i].pc = "wait")
                ~> (Len(tcalls) >= i /\ tcalls[i].pc = "done")

\* a message whose getMembers waited for the fetch of another message has
\* been answered
C30_Witness ==
    \E i \in SendDone :
        /\ scalls[i].t # 0
        /\ ~tcalls[scalls[i].t].fetched
        /\ tcalls[scalls[i].t].wakeAt # 0
        /\ scalls[i].ret[1].success

-----------------------------------------------------------------------------
(* generateAIResponse: retries and the class of the failure *)

\* the endpoint answered with HTTP 200 and no non-blank string at the text path
EmptyBody(out) ==
    /\ out.ok
    /\ out.val.status = OK
    /\ (out.val.text.type # "string" \/ out.val.text.str \in WhitespaceOnly)

\* C31: when the first answer of the generation endpoint is an HTTP 200 with
\* an empty or malformed body, the call of generateAIResponse is over at
\* once: the endpoint was called exactly once, no backoff timer was started,
\* and the empty-response message is returned.
C31_EmptyNotRetried ==
    \A i \in DOMAIN gcalls :
        LET g == gcalls[i] IN
        (g.r.log # <<>> /\ EmptyBody(g.r.log[1])) =>
            /\ g.pc = "done"
            /\ g.r.calls = 1
            /\ Len(g.r.log) = 1
            /\ g.r.waited = <<>>
            /\ ~g.threw
            /\ g.ret = Some(EMPTY_RESPONSE)

\* a 200 answer without a text was the first one, with three attempts allowed
C31_Witness ==
    \E i \in GenDone :
        LET g == gcalls[i] IN
        /\ g.r.maxRetries = MAX_ATTEMPTS
        /\ g.r.log # <<>>
        /\ EmptyBody(g.r.log[1])
        /\ g.r.log[1].val.text = JsUndefined
        /\ g.r.calls = 1
        /\ g.ret = Some(EMPTY_RESPONSE)

\* the fixed message of the class of a rejected request
ClassMessage(err) ==
    CASE err.status \in {BAD_REQUEST, FORBIDDEN} -> API_CONFIG_ERROR
      [] err.status \notin {BAD_REQUEST, FORBIDDEN} /\ err.code = "ECONNABORTED" -> TIMEOUT_MESSAGE
      [] OTHER -> NETWORK_ERROR

\* C32: while every request of a call of generateAIResponse so far was
\* rejected (with an HTTP 400 or 403, another status, a timeout or a network
\* error), the call goes on until the endpoint has been called exactly
\* maxAttempts times; it then returns, without throwing, the fixed message of
\* the class of the last rejection, whatever the earlier ones were.
C32_RetriesAnyClass ==
    \A i \in DOMAIN gcalls :
        LET g == gcalls[i] IN
        (~InvalidQuery(g.query) /\ g.r.log # <<>> /\ Failures(g.r.log) = DOMAIN g.r.log) =>
            /\ g.r.calls <= env.maxAttempts
            /\ (g.pc = "done") <=> (Len(g.r.log) = env.maxAttempts)
            /\ g.pc = "done" =>
                  /\ g.r.calls = env.maxAttempts
                  /\ ~g.threw
                  /\ g.ret = Some(ClassMessage(LastOutcome(g).val))

\* with two attempts configured a 400 was retried, the second request timed
\* out, and the timeout message came back
C32_Witness ==
    \E i \in GenDone :
        LET g == gcalls[i] IN
        /\ env.maxAttempts = 2
        /\ Len(g.r.log) = 2
        /\ ~g.r.log[1].ok /\ g.r.log[1].val.status = BAD_REQUEST
        /\ ~g.r.log[2].ok /\ g.r.log[2].val.code = "ECONNABORTED"
        /\ g.r.calls = 2
        /\ g.ret = Some(TIMEOUT_MESSAGE)

-----------------------------------------------------------------------------
(* TeamDataManager: failures of the upstream *)

\* reads whose upstream request failed or was answered unexpectedly
FailedFetches == {k \in Done : tcalls[k].fetched /\ ~tcalls[k].ok}

\* C33: a read whose upstream request failed or brought an unexpected
\* response returns the empty roster and leaves it cached under a new
\* lastFetch (the time the read began); every getMembers read issued after
\* that within the TTL of that time, with no fetch, refresh or clearCache in
\* between, returns the empty roster at once and starts no upstream request.
C33_NegativeCaching ==
    /\ \A k \in FailedFetches :
           LET f == tcalls[k] IN
           /\ f.members = Some(<<>>)
           /\ f.stored = Some(<<>>)
           /\ f.storedAt = f.now
    /\ \A k \in FailedFetches : \A i \in DOMAIN tcalls :
           LET f == tcalls[k]
               c == tcalls[i]
           IN (c.op = "getMembers" /\ c.hit /\ c.fcIssue = f.fcRet) =>
                 /\ c.pc = "done"
                 /\ ~c.fetched
                 /\ c.now - f.now < cacheTimeout
                 /\ c.members = Some(<<>>)
                 /\ c.fcRet = f.fcRet

\* the only upstream request failed, and a getMembers read 100 ms short of
\* the TTL later was answered with the empty roster from the cache
C33_Witness ==
    \E k \in FailedFetches : \E i \in Done :
        /\ tcalls[i].op = "getMembers"
        /\ tcalls[i].hit
        /\ ~tcalls[i].fetched
        /\ tcalls[i].now = tcalls[k].now + cacheTimeout - PollDelay
        /\ tcalls[i].members = Some(<<>>)
        /\ fetchCount = 1

-----------------------------------------------------------------------------
(* fetchAndCacheEvents: reads during an outage *)

\* C34: a read of the events cache that fails leaves lastEventsFetchTime as
\* it was; a read issued when no fetched result was stored within the events
\* TTL before it calls the upstream at least once and at most maxAttempts
\* times, and when it fails it returns the cache as it stands, or two empty
\* sequences.  So a read answered by the cache without an upstream call
\* follows a stored fetch result by less than the TTL, never a failure.
C34_OutageReads ==
    \A i \in DOMAIN ecalls :
        LET c == ecalls[i] IN
        /\ c.failed => c.timeKept
        /\ ~c.timeFresh =>
              /\ c.attempt >= 1
              /\ c.attempt <= env.maxAttempts
              /\ (c.pc = "done" /\ c.failed) =>
                    /\ c.ret # None
                    /\ c.ret[1] \in {c.cacheBefore[1], NoEvents}

\* a stored event set went stale, the next read failed on all its attempts
\* and returned the stale set, and the read after that called the upstream again
C34_Witness ==
    \E i, j, k \in DOMAIN ecalls :
        /\ i < j /\ j < k
        /\ ecalls[i].pc = "done" /\ ~ecalls[i].failed /\ ecalls[i].attempt >= 1
        /\ ecalls[j].pc = "done" /\ ecalls[j].failed /\ ~ecalls[j].timeFresh
        /\ ecalls[j].attempt = MAX_ATTEMPTS
        /\ ecalls[j].ret = ecalls[i].ret
        /\ ecalls[j].ret[1].upcomingEvents # <<>>
        /\ ~ecalls[k].timeFresh
        /\ ecalls[k].pc = "request"
        /\ lastEventsFetchTime = evPopAt
        /\ clock - lastEventsFetchTime >= EVENTS_DURATION

-----------------------------------------------------------------------------
(* ping: what it can report *)

====
